---- MODULE Spec2Model ----
(***************************************************************************)
(* Model of the trading analytics backend: the SQLite store               *)
(* (storage.py), the alert manager (alert_manager.py) and the ingestion   *)
(* service (data_ingestion.py) as driven by app.py.                       *)
(*                                                                         *)
(* Times are milliseconds (the feed's 'T' field); a naive datetime is the  *)
(* number of milliseconds since a local midnight.  Prices, quantities and  *)
(* thresholds are integers in units of 0.00005.                            *)
(***************************************************************************)
EXTENDS Integers, Sequences, FiniteSets, TLC

VARIABLES
  ticks,      \* table ticks, rows in rowid order
  ohlc,       \* table ohlc, rows in rowid order
  ticksB,     \* a second database file fed the same trades (replay runs)
  ohlcB,
  imports,            \* CSV uploads handled so far
  alerts,             \* AlertManager.alerts, in the dict's insertion order
  triggered_history,  \* AlertManager.triggered_history
  now,                \* the clock datetime.now() reads
  all_triggered,      \* every TriggeredAlert ever returned, in trigger order
  created,            \* alert ids drawn so far
  active,             \* DataIngestionService.active
  websocket,          \* DataIngestionService.websocket: 0 (None) or the thread whose connection it is
  current_symbols,    \* DataIngestionService.current_symbols
  active_symbols,     \* app.py's global active_symbols
  pc,                 \* where each thread is
  task_symbols,       \* the symbols argument of each thread's start / restart_with_symbols
  conn_log,           \* per thread: its connection attempts, sleeps and connection ends
  trace,              \* the steps of process_message, in the order they ran
  msgs,               \* messages the feed has delivered
  stop_requested,     \* stop or restart_with_symbols has cleared the active flag
  call,               \* the last direct call on a component: its arguments and what it returned
  prices,             \* the close series handed to _calculate_rsi
  merged,             \* backtest: the rows of the merged table the loop has gone through
  in_position,        \* backtest's loop variables
  entry_price,
  positions

(***************************************************************************)
(* Bounds of the model.                                                    *)
(***************************************************************************)
MaxTicks == 3      \* rows of table ticks in the store specifications
MaxReplay == 2     \* rows of table ticks per database in the replay runs
MaxImports == 2    \* CSV uploads
MaxRules == 2      \* alert rules in the history runs
MaxThreads == 2    \* the ingestion thread and the restart threads
MaxMsgs == 2       \* messages the feed delivers
MaxFails == 3      \* failed connection attempts
MaxCloses == 1     \* connections the feed ends
MaxAlerts == 1     \* alert rules in the ingestion runs
MaxCalls == 180    \* check_tick / check_analytics calls in the history runs
MaxChecks == 2     \* check_tick / check_analytics calls in the alert runs
MaxFreeRows == 3   \* rows of the merged table chosen freely, before the scheduled ones
MaxRows == 27      \* rows of the merged table in the backtest runs
MaxPrices == 15    \* prices of a series handed to _calculate_rsi

(***************************************************************************)
(* Program constants.                                                      *)
(***************************************************************************)
MsPerSec == 1000
HistoryLimit == 100
EqTolerance == 2     \* 0.0001
BackoffSeconds == 5
RestartSeconds == 2
EntryZ == 20         \* z-score 2, in tenths
ExitZ == 0
TradesShown == 10
FrameLimit == 1000
RsiPeriod == 14
NeutralRsi == 50

Symbols == {"BTCUSDT", "ETHUSDT"}

\* The catalogue of trades the feed can deliver: <<trade id, symbol, T, price, quantity>>.
TradeTable ==
  << <<1, "BTCUSDT", 0,       20000, 1>>,
     <<2, "BTCUSDT", 0,       40000, 2>>,
     <<3, "BTCUSDT", 500,     10000, 1>>,
     <<4, "BTCUSDT", 1500,    30000, 3>>,
     <<5, "BTCUSDT", 60500,   20020, 1>>,
     <<6, "BTCUSDT", 300500,  20001, 2>>,
     <<7, "ETHUSDT", 500,     20000, 1>>,
     <<8, "BTCUSDT", 4020500, 50000, 1>> >>

Trade(i) ==
  [t |-> TradeTable[i][1], s |-> TradeTable[i][2], T |-> TradeTable[i][3],
   p |-> TradeTable[i][4], q |-> TradeTable[i][5]]

Trades == { Trade(i) : i \in 1..Len(TradeTable) }

(***************************************************************************)
(* datetime and its text form in the database.                             *)
(***************************************************************************)
\* datetime.fromtimestamp(T / 1000): the naive local datetime of an epoch time.
FromTimestamp(T) == T

Microsecond(dt) == dt % MsPerSec
Second(dt) == (dt \div MsPerSec) % 60
Minute(dt) == (dt \div (60 * MsPerSec)) % 60

\* datetime.replace(second=0, microsecond=0)
ReplaceSecondMicro(dt) == dt - Second(dt) * MsPerSec - Microsecond(dt)
\* datetime.replace(microsecond=0)
ReplaceMicro(dt) == dt - Microsecond(dt)
\* datetime.replace(minute=m)
ReplaceMinute(dt, m) == dt - Minute(dt) * 60 * MsPerSec + m * 60 * MsPerSec
\* dt + timedelta(seconds=n)
PlusSeconds(dt, n) == dt + n * MsPerSec

\* sqlite3's datetime adapter writes isoformat(" "): 'YYYY-MM-DD HH:MM:SS[.ffffff]'.
\* A CSV may carry the same instant written with a 'T' separator; the column
\* keeps whatever text it is given.
IsoText(dt) == [fmt |-> "space", t |-> dt]
CsvText(dt, fmt) == [fmt |-> fmt, t |-> dt]

DayOf(dt) == dt \div (86400 * MsPerSec)

\* SQLite's binary collation on two timestamp texts: the date decides, then the
\* separator (' ' sorts before 'T'), then the time of day.
TextLess(a, b) ==
  IF DayOf(a.t) # DayOf(b.t) THEN DayOf(a.t) < DayOf(b.t)
  ELSE IF a.fmt # b.fmt THEN a.fmt = "space"
  ELSE a.t < b.t

TextLeq(a, b) == a = b \/ TextLess(a, b)

\* pd.to_datetime of a stored text: the instant it denotes.
ToDatetime(text) == text.t

(***************************************************************************)
(* storage.py: DatabaseManager                                             *)
(***************************************************************************)
Timeframes == <<"1s", "1m", "5m">>

TimeframeSeconds(tf) ==
  CASE tf = "1s" -> 1
    [] tf = "1m" -> 60
    [] tf = "5m" -> 300

BucketStart_Minute7(timeframe, current_time) ==
  LET bucket_start == ReplaceSecondMicro(current_time)
  IN IF timeframe = "1s" THEN ReplaceMicro(current_time)
     ELSE IF timeframe = "5m"
       THEN ReplaceMinute(bucket_start, (Minute(bucket_start) \div 7) * 7)
       ELSE bucket_start

\* _resample_to_ohlc, the bucket of current_time
BucketStart(timeframe, current_time) ==
  LET bucket_start == ReplaceSecondMicro(current_time)
  IN IF timeframe = "1s" THEN ReplaceMicro(current_time)
     ELSE IF timeframe = "1m" THEN bucket_start
     ELSE IF timeframe = "5m"
       THEN ReplaceMinute(bucket_start, (Minute(bucket_start) \div 5) * 5)
       ELSE bucket_start

\* The row INSERT INTO ticks writes for a tick dict.
TickRow(tick) ==
  [timestamp |-> IsoText(tick.timestamp), symbol |-> tick.symbol,
   price |-> tick.price, quantity |-> tick.quantity, trade_id |-> tick.trade_id]

\* WHERE symbol = ? AND timestamp >= ? AND timestamp < ?  (row numbers)
BucketRows(tk, symbol, bucket_start, bucket_end) ==
  { i \in 1..Len(tk) :
      /\ tk[i].symbol = symbol
      /\ TextLeq(IsoText(bucket_start), tk[i].timestamp)
      /\ TextLess(tk[i].timestamp, IsoText(bucket_end)) }

\* ORDER BY timestamp: every order of the rows with timestamps non-decreasing;
\* SQL leaves the order of rows with equal timestamps open.
RECURSIVE OrderBy(_, _)
OrderBy(tk, rows) ==
  IF rows = {} THEN { <<>> }
  ELSE LET first == { i \in rows :
                        \A j \in rows : TextLeq(tk[i].timestamp, tk[j].timestamp) }
       IN UNION { { <<tk[i]>> \o rest : rest \in OrderBy(tk, rows \ {i}) } : i \in first }

\* The data frames the bucket query of _resample_to_ohlc can return.
BucketQuery(tk, symbol, timeframe, seconds, current_time) ==
  LET bucket_start == BucketStart(timeframe, current_time)
      bucket_end == PlusSeconds(bucket_start, seconds)
  IN OrderBy(tk, BucketRows(tk, symbol, bucket_start, bucket_end))

RECURSIVE SeqSum(_)
SeqSum(s) == IF s = <<>> THEN 0 ELSE Head(s) + SeqSum(Tail(s))

SeqMax(s) == CHOOSE x \in { s[i] : i \in 1..Len(s) } : \A i \in 1..Len(s) : s[i] <= x
SeqMin(s) == CHOOSE x \in { s[i] : i \in 1..Len(s) } : \A i \in 1..Len(s) : x <= s[i]

Column(df, name) == [i \in 1..Len(df) |-> df[i][name]]

\* ohlc_data of _resample_to_ohlc
OhlcData(df, symbol, timeframe, bucket_start) ==
  [timestamp |-> IsoText(bucket_start), symbol |-> symbol, timeframe |-> timeframe,
   open |-> df[1].price,
   high |-> SeqMax(Column(df, "price")),
   low |-> SeqMin(Column(df, "price")),
   close |-> df[Len(df)].price,
   volume |-> SeqSum(Column(df, "quantity"))]

SameKey(a, b) ==
  a.symbol = b.symbol /\ a.timeframe = b.timeframe /\ a.timestamp = b.timestamp

InsertOrReplace_PerSymbol(oh, row) ==
  LET Other(r) == ~(r.symbol = row.symbol /\ r.timeframe = row.timeframe)
  IN Append(SelectSeq(oh, Other), row)

\* INSERT OR REPLACE INTO ohlc under UNIQUE(symbol, timeframe, timestamp)
InsertOrReplace(oh, row) ==
  LET Other(r) == ~SameKey(r, row)
  IN Append(SelectSeq(oh, Other), row)

\* _resample_to_ohlc with the data frame df its query returned
ResampleToOhlc(oh, symbol, timeframe, current_time, df) ==
  IF Len(df) > 0
    THEN InsertOrReplace(oh, OhlcData(df, symbol, timeframe,
                                      BucketStart(timeframe, current_time)))
    ELSE oh

UpdateOhlc_TwoTimeframes(tk, oh, symbol, timestamp) ==
  { ResampleToOhlc(
      ResampleToOhlc(oh, symbol, Timeframes[1], timestamp, d1),
      symbol, Timeframes[2], timestamp, d2) :
    d1 \in BucketQuery(tk, symbol, Timeframes[1], TimeframeSeconds(Timeframes[1]), timestamp),
    d2 \in BucketQuery(tk, symbol, Timeframes[2], TimeframeSeconds(Timeframes[2]), timestamp) }

\* update_ohlc: the tables it can leave, one _resample_to_ohlc per timeframe in
\* the order of the timeframes dict
UpdateOhlc(tk, oh, symbol, timestamp) ==
  { ResampleToOhlc(
      ResampleToOhlc(
        ResampleToOhlc(oh, symbol, Timeframes[1], timestamp, d1),
        symbol, Timeframes[2], timestamp, d2),
      symbol, Timeframes[3], timestamp, d3) :
    d1 \in BucketQuery(tk, symbol, Timeframes[1], TimeframeSeconds(Timeframes[1]), timestamp),
    d2 \in BucketQuery(tk, symbol, Timeframes[2], TimeframeSeconds(Timeframes[2]), timestamp),
    d3 \in BucketQuery(tk, symbol, Timeframes[3], TimeframeSeconds(Timeframes[3]), timestamp) }

\* insert_tick: the <<ticks, ohlc>> pairs it can leave
InsertTick(tk, oh, tick) ==
  LET tk2 == Append(tk, TickRow(tick))
  IN { <<tk2, oh2>> : oh2 \in UpdateOhlc(tk2, oh, tick.symbol, tick.timestamp) }

\* A database in trouble (sqlite3.OperationalError: locked, disk full): the
\* INSERT of the tick raises, or _resample_to_ohlc raises for the timeframes
\* in bars before its commit.
NoFault == [insert |-> FALSE, bars |-> {}]
Faults ==
  { NoFault,
    [insert |-> TRUE, bars |-> {}],
    [insert |-> FALSE, bars |-> {"1m"}],
    [insert |-> FALSE, bars |-> {"1s", "5m"}] }

\* _resample_to_ohlc under a fault, as update_ohlc sees it: <<table, raised>>
ResampleUnder(oh, symbol, timeframe, current_time, df, fault) ==
  IF timeframe \in fault.bars
    THEN <<oh, TRUE>>
    ELSE <<ResampleToOhlc(oh, symbol, timeframe, current_time, df), FALSE>>

UpdateOhlcUnder_AbortOnError(tk, oh, symbol, timestamp, fault) ==
  { LET r1 == ResampleUnder(oh, symbol, Timeframes[1], timestamp, d1, fault)
        r2 == IF r1[2] THEN r1
              ELSE ResampleUnder(r1[1], symbol, Timeframes[2], timestamp, d2, fault)
        r3 == IF r2[2] THEN r2
              ELSE ResampleUnder(r2[1], symbol, Timeframes[3], timestamp, d3, fault)
    IN r3[1] :
    d1 \in BucketQuery(tk, symbol, Timeframes[1], TimeframeSeconds(Timeframes[1]), timestamp),
    d2 \in BucketQuery(tk, symbol, Timeframes[2], TimeframeSeconds(Timeframes[2]), timestamp),
    d3 \in BucketQuery(tk, symbol, Timeframes[3], TimeframeSeconds(Timeframes[3]), timestamp) }

\* update_ohlc under a fault: each timeframe in its own try/except, the
\* exception logged and the loop going on
UpdateOhlcUnder(tk, oh, symbol, timestamp, fault) ==
  { LET r1 == ResampleUnder(oh, symbol, Timeframes[1], timestamp, d1, fault)
        r2 == ResampleUnder(r1[1], symbol, Timeframes[2], timestamp, d2, fault)
        r3 == ResampleUnder(r2[1], symbol, Timeframes[3], timestamp, d3, fault)
    IN r3[1] :
    d1 \in BucketQuery(tk, symbol, Timeframes[1], TimeframeSeconds(Timeframes[1]), timestamp),
    d2 \in BucketQuery(tk, symbol, Timeframes[2], TimeframeSeconds(Timeframes[2]), timestamp),
    d3 \in BucketQuery(tk, symbol, Timeframes[3], TimeframeSeconds(Timeframes[3]), timestamp) }

\* insert_tick under a fault: an INSERT that raises leaves the table as it was
\* and skips update_ohlc; the except clause logs and insert_tick returns
InsertTickUnder(tk, oh, tick, fault) ==
  IF fault.insert THEN { <<tk, oh>> }
  ELSE LET tk2 == Append(tk, TickRow(tick))
       IN { <<tk2, oh2>> :
            oh2 \in UpdateOhlcUnder(tk2, oh, tick.symbol, tick.timestamp, fault) }

\* The tick dict process_message builds from a trade message.
TickOf(trade) ==
  [timestamp |-> FromTimestamp(trade.T), symbol |-> trade.s,
   price |-> trade.p, quantity |-> trade.q, trade_id |-> trade.t]

Ticks == { TickOf(tr) : tr \in Trades }

(***************************************************************************)
(* alert_manager.py: AlertManager                                          *)
(***************************************************************************)
\* The create-alert requests: <<symbol, metric, condition, threshold, message>>.
AlertTable ==
  << <<"BTCUSDT", "price", ">", 25000, "">>,
     <<"BTCUSDT", "volume", ">=", 1, "size">>,
     <<"BTCUSDT", "zscore", ">", 40000, "">>,
     <<"BTCUSDT", "price", "==", 20000, "">>,
     <<"ETHUSDT", "quantity", "<", 5, "">> >>

AlertRequest(i) ==
  [symbol |-> AlertTable[i][1], metric |-> AlertTable[i][2],
   condition |-> AlertTable[i][3], threshold |-> AlertTable[i][4],
   message |-> AlertTable[i][5]]

AlertRequests == { AlertRequest(i) : i \in 1..Len(AlertTable) }

\* add_alert: the rule it stores under alert_id; the default message is
\* f"{symbol} {metric} {condition} {threshold}".  No last_triggered yet (0).
NewAlert(alert_id, req) ==
  [id |-> alert_id, symbol |-> req.symbol, metric |-> req.metric,
   condition |-> req.condition, threshold |-> req.threshold,
   message |-> IF req.message = ""
                 THEN [symbol |-> req.symbol, metric |-> req.metric,
                       condition |-> req.condition, threshold |-> req.threshold]
                 ELSE [text |-> req.message],
   active |-> TRUE, trigger_count |-> 0, last_triggered |-> 0]

\* add_alert: the rules it leaves; uuid.uuid4() is an id no rule has had.
AddAlert(al, alert_id, req) == Append(al, NewAlert(alert_id, req))

\* remove_alert: del self.alerts[alert_id] when the id is there
RemoveAlert(al, alert_id) ==
  LET Other(a) == a.id # alert_id
  IN SelectSeq(al, Other)

\* s[start:] of Python: a negative start counts from the end
SliceFrom(s, start) ==
  IF start < 0
    THEN (IF Len(s) <= 0 - start THEN s ELSE SubSeq(s, Len(s) + start + 1, Len(s)))
  ELSE IF start >= Len(s) THEN <<>>
  ELSE SubSeq(s, start + 1, Len(s))

\* get_triggered_history: self.triggered_history[-limit:]
GetTriggeredHistory(history, limit) == SliceFrom(history, 0 - limit)

Abs(x) == IF x < 0 THEN -x ELSE x

EvaluateCondition_Exact(value, condition, threshold) ==
  CASE condition = ">" -> value > threshold
    [] condition = "<" -> value < threshold
    [] condition = ">=" -> value >= threshold
    [] condition = "<=" -> value <= threshold
    [] condition = "==" -> value = threshold
    [] OTHER -> FALSE

EvaluateCondition_UnknownHolds(value, condition, threshold) ==
  CASE condition = ">" -> value > threshold
    [] condition = "<" -> value < threshold
    [] condition = ">=" -> value >= threshold
    [] condition = "<=" -> value <= threshold
    [] condition = "==" -> Abs(value - threshold) < EqTolerance
    [] OTHER -> TRUE

\* _evaluate_condition
EvaluateCondition(value, condition, threshold) ==
  CASE condition = ">" -> value > threshold
    [] condition = "<" -> value < threshold
    [] condition = ">=" -> value >= threshold
    [] condition = "<=" -> value <= threshold
    [] condition = "==" -> Abs(value - threshold) < EqTolerance
    [] OTHER -> FALSE

\* history[-n:]
LastN(s, n) == IF Len(s) <= n THEN s ELSE SubSeq(s, Len(s) - n + 1, Len(s))

KeepHistory_Oldest(history) ==
  IF Len(history) > HistoryLimit THEN SubSeq(history, 1, HistoryLimit) ELSE history

\* if len(self.triggered_history) > 100: keep triggered_history[-100:]
KeepHistory(history) ==
  IF Len(history) > HistoryLimit THEN LastN(history, HistoryLimit) ELSE history

Trigger_NoCount(st, i, value, timestamp, clock) ==
  LET alert == st.alerts[i]
      triggered_alert ==
        [alert_id |-> alert.id, message |-> alert.message, symbol |-> alert.symbol,
         metric |-> alert.metric, value |-> value, threshold |-> alert.threshold,
         timestamp |-> timestamp]
  IN [alerts |-> [st.alerts EXCEPT ![i].last_triggered = clock],
      triggered |-> Append(st.triggered, triggered_alert),
      history |-> KeepHistory(Append(st.history, triggered_alert))]

Trigger_CountsTwice(st, i, value, timestamp, clock) ==
  LET alert == st.alerts[i]
      triggered_alert ==
        [alert_id |-> alert.id, message |-> alert.message, symbol |-> alert.symbol,
         metric |-> alert.metric, value |-> value, threshold |-> alert.threshold,
         timestamp |-> timestamp]
  IN [alerts |-> [st.alerts EXCEPT ![i].trigger_count = @ + 2,
                                   ![i].last_triggered = clock],
      triggered |-> Append(st.triggered, triggered_alert),
      history |-> KeepHistory(Append(st.history, triggered_alert))]

\* One rule that triggered on value: count it, stamp it, record the alert.
Trigger(st, i, value, timestamp, clock) ==
  LET alert == st.alerts[i]
      triggered_alert ==
        [alert_id |-> alert.id, message |-> alert.message, symbol |-> alert.symbol,
         metric |-> alert.metric, value |-> value, threshold |-> alert.threshold,
         timestamp |-> timestamp]
  IN [alerts |-> [st.alerts EXCEPT ![i].trigger_count = @ + 1,
                                   ![i].last_triggered = clock],
      triggered |-> Append(st.triggered, triggered_alert),
      history |-> KeepHistory(Append(st.history, triggered_alert))]

\* check_tick, the loop over self.alerts.items() from rule i on
RECURSIVE CheckTickFrom(_, _, _, _)
CheckTickFrom(st, i, tick, clock) ==
  IF i > Len(st.alerts) THEN st
  ELSE LET alert == st.alerts[i]
       IN IF ~alert.active \/ alert.symbol # tick.symbol
            THEN CheckTickFrom(st, i + 1, tick, clock)
          ELSE IF alert.metric \notin {"price", "volume", "quantity"}
            THEN CheckTickFrom(st, i + 1, tick, clock)
          ELSE LET value == IF alert.metric = "price" THEN tick.price ELSE tick.quantity
               IN IF EvaluateCondition(value, alert.condition, alert.threshold)
                    THEN CheckTickFrom(Trigger(st, i, value, tick.timestamp, clock),
                                       i + 1, tick, clock)
                    ELSE CheckTickFrom(st, i + 1, tick, clock)

\* check_tick, one pass of the loop body, on rule i
CheckTickAt(st, i, tick, clock) ==
  LET alert == st.alerts[i]
  IN IF ~alert.active \/ alert.symbol # tick.symbol THEN st
     ELSE IF alert.metric \notin {"price", "volume", "quantity"} THEN st
     ELSE LET value == IF alert.metric = "price" THEN tick.price ELSE tick.quantity
          IN IF EvaluateCondition(value, alert.condition, alert.threshold)
               THEN Trigger(st, i, value, tick.timestamp, clock)
               ELSE st

\* check_tick: the rules, the history and the returned list it leaves
CheckTick(al, history, tick, clock) ==
  CheckTickFrom([alerts |-> al, history |-> history, triggered |-> <<>>], 1, tick, clock)

\* Python's None where a symbol is expected.
None == "None"

\* dict.get(key, {}) and dict.get(key): a missing key gives {} (None).
Get(d, key) == IF key \in DOMAIN d THEN d[key] ELSE << >>
GetValue(d, key) == IF key \in DOMAIN d THEN {d[key]} ELSE {}

AnalyticsValue_Default(metric, analytics) ==
  IF metric \in {"zscore", "rsi", "volatility"}
    THEN IF GetValue(Get(analytics, "statistics"), metric) = {} THEN {0}
         ELSE GetValue(Get(analytics, "statistics"), metric)
  ELSE IF metric = "price"
    THEN GetValue(Get(analytics, "price"), "current")
  ELSE {}

\* check_analytics, the value of a rule's metric in the snapshot (none: {})
AnalyticsValue(metric, analytics) ==
  IF metric \in {"zscore", "rsi", "volatility"}
    THEN GetValue(Get(analytics, "statistics"), metric)
  ELSE IF metric = "price"
    THEN GetValue(Get(analytics, "price"), "current")
  ELSE {}

\* check_analytics, the loop over self.alerts.items() from rule i on
RECURSIVE CheckAnalyticsFrom(_, _, _, _)
CheckAnalyticsFrom(st, i, analytics, clock) ==
  IF i > Len(st.alerts) THEN st
  ELSE LET alert == st.alerts[i]
           symbol == IF "symbol" \in DOMAIN analytics THEN analytics.symbol ELSE None
           value == AnalyticsValue(alert.metric, analytics)
       IN IF ~alert.active \/ alert.symbol # symbol
            THEN CheckAnalyticsFrom(st, i + 1, analytics, clock)
          ELSE IF value = {}
            THEN CheckAnalyticsFrom(st, i + 1, analytics, clock)
          ELSE LET v == CHOOSE x \in value : TRUE
               IN IF EvaluateCondition(v, alert.condition, alert.threshold)
                    THEN CheckAnalyticsFrom(Trigger(st, i, v, clock, clock),
                                            i + 1, analytics, clock)
                    ELSE CheckAnalyticsFrom(st, i + 1, analytics, clock)

CheckAnalytics(al, history, analytics, clock) ==
  CheckAnalyticsFrom([alerts |-> al, history |-> history, triggered |-> <<>>],
                     1, analytics, clock)

\* Analytics results: a full snapshot, one without statistics, and the
\* insufficient-data result.
SnapshotTable ==
  << [symbol |-> "BTCUSDT",
      price |-> [current |-> 35000],
      statistics |-> [zscore |-> 50000, rsi |-> 1000000, volatility |-> 2000]],
     [symbol |-> "BTCUSDT",
      price |-> [current |-> 20000]],
     [error |-> "Insufficient data", required |-> 20, available |-> 3] >>

Snapshots == { SnapshotTable[i] : i \in 1..Len(SnapshotTable) }

(***************************************************************************)
(* CSV upload.  A file is its header check and its rows.                   *)
(***************************************************************************)
CsvRow(text, symbol, price, volume) ==
  [timestamp |-> text, symbol |-> symbol, open |-> price, high |-> price,
   low |-> price, close |-> price, volume |-> volume]

CsvFiles ==
  { [required_cols |-> TRUE,
     rows |-> << CsvRow(CsvText(0, "space"), "BTCUSDT", 20000, 1) >>],
    [required_cols |-> TRUE,
     rows |-> << CsvRow(CsvText(0, "T"), "BTCUSDT", 30000, 2) >>],
    [required_cols |-> TRUE,
     rows |-> << CsvRow(CsvText(30000, "space"), "ETHUSDT", 20000, 1),
                 CsvRow(CsvText(60000, "space"), "ETHUSDT", 20001, 1) >>],
    [required_cols |-> TRUE,
     rows |-> << CsvRow(CsvText(120000, "space"), "BTCUSDT", 20000, 1),
                 CsvRow(CsvText(120000, "space"), "BTCUSDT", 40000, 1) >>],
    [required_cols |-> FALSE,
     rows |-> << CsvRow(CsvText(180000, "space"), "BTCUSDT", 20000, 1) >>] }

\* df['timeframe'] = '1m'
TagTimeframe(rows) ==
  [i \in 1..Len(rows) |->
     [timestamp |-> rows[i].timestamp, symbol |-> rows[i].symbol, timeframe |-> "1m",
      open |-> rows[i].open, high |-> rows[i].high, low |-> rows[i].low,
      close |-> rows[i].close, volume |-> rows[i].volume]]

\* UNIQUE(symbol, timeframe, timestamp) of table ohlc
UniqueOk(oh) ==
  \A i, j \in 1..Len(oh) : SameKey(oh[i], oh[j]) => i = j

\* import_ohlc_csv: the table it leaves.  ValueError on a bad header; to_sql
\* appends every row in one transaction, which an IntegrityError rolls back.
ImportOhlcCsv(oh, file) ==
  IF ~file.required_cols THEN oh
  ELSE LET appended == oh \o TagTimeframe(file.rows)
       IN IF UniqueOk(appended) THEN appended ELSE oh

(***************************************************************************)
(* storage.py: DatabaseManager.get_dataframe                               *)
(***************************************************************************)
\* ORDER BY timestamp DESC: every order of the rows with the timestamp texts
\* non-increasing.
RECURSIVE OrderByDesc(_, _)
OrderByDesc(tb, rows) ==
  IF rows = {} THEN { <<>> }
  ELSE LET first == { i \in rows :
                        \A j \in rows : TextLeq(tb[j].timestamp, tb[i].timestamp) }
       IN UNION { { <<tb[i]>> \o rest : rest \in OrderByDesc(tb, rows \ {i}) } : i \in first }

\* s[:n]
FirstN(s, n) == IF Len(s) <= n THEN s ELSE SubSeq(s, 1, n)

\* The columns the two queries select, with the timestamp through pd.to_datetime
FrameRow(r, timeframe) ==
  IF timeframe = "tick"
    THEN [timestamp |-> ToDatetime(r.timestamp), close |-> r.price, volume |-> r.quantity]
    ELSE [timestamp |-> ToDatetime(r.timestamp), open |-> r.open, high |-> r.high,
          low |-> r.low, close |-> r.close, volume |-> r.volume]

\* df.sort_values('timestamp'): every order with the instants non-decreasing
RECURSIVE SortValues(_, _)
SortValues(df, rows) ==
  IF rows = {} THEN { <<>> }
  ELSE LET first == { i \in rows : \A j \in rows : df[i].timestamp <= df[j].timestamp }
       IN UNION { { <<df[i]>> \o rest : rest \in SortValues(df, rows \ {i}) } : i \in first }

\* get_dataframe: the data frames it can return
GetDataframe(tk, oh, symbol, timeframe, limit) ==
  LET tb == IF timeframe = "tick" THEN tk ELSE oh
      rows == IF timeframe = "tick"
                THEN { i \in 1..Len(tk) : tk[i].symbol = symbol }
                ELSE { i \in 1..Len(oh) : oh[i].symbol = symbol /\ oh[i].timeframe = timeframe }
      Frame(q) == [i \in 1..Len(q) |-> FrameRow(q[i], timeframe)]
  IN UNION { SortValues(Frame(FirstN(q, limit)), 1..Len(FirstN(q, limit))) :
             q \in OrderByDesc(tb, rows) }

(***************************************************************************)
(* analytics_engine.py: AnalyticsEngine                                    *)
(* A float that may be NaN is [nan, v]; a quotient is kept as a fraction.  *)
(***************************************************************************)
Real(v) == [nan |-> FALSE, v |-> v]
NaN == [nan |-> TRUE, v |-> 0]

\* x > c and x < c on floats: False on NaN
Gt(x, c) == ~x.nan /\ x.v > c
Lt(x, c) == ~x.nan /\ x.v < c

\* a / b
Ratio(a, b) == [num |-> a, den |-> b]

\* prices.diff() at place i: NaN at the first place
Diff(series, i) == IF i = 1 THEN NaN ELSE Real(series[i] - series[i - 1])

\* delta.where(delta > 0, 0) and -delta.where(delta < 0, 0) at place i
GainAt(series, i) == IF Gt(Diff(series, i), 0) THEN Diff(series, i).v ELSE 0
LossAt(series, i) == IF Lt(Diff(series, i), 0) THEN 0 - Diff(series, i).v ELSE 0

RECURSIVE SumGain(_, _, _)
SumGain(series, from, to) ==
  IF from > to THEN 0 ELSE GainAt(series, from) + SumGain(series, from + 1, to)

RECURSIVE SumLoss(_, _, _)
SumLoss(series, from, to) ==
  IF from > to THEN 0 ELSE LossAt(series, from) + SumLoss(series, from + 1, to)

\* The last value of rolling(window=period).mean(), as the sum over the window
\* (both means share the divisor): NaN while fewer than period values exist
RollingGain(series, period) ==
  IF Len(series) < period THEN NaN
  ELSE Real(SumGain(series, Len(series) - period + 1, Len(series)))
RollingLoss(series, period) ==
  IF Len(series) < period THEN NaN
  ELSE Real(SumLoss(series, Len(series) - period + 1, Len(series)))

CalculateRsi_ZeroLossNeutral(series, period) ==
  LET gain == RollingGain(series, period)
      loss == RollingLoss(series, period)
  IN IF gain.nan \/ loss.nan THEN Ratio(NeutralRsi, 1)
     ELSE IF loss.v = 0 THEN Ratio(NeutralRsi, 1)
     ELSE Ratio(100 * gain.v, gain.v + loss.v)

\* _calculate_rsi: rs = gain / loss is NaN for 0/0 and inf for x/0 with x > 0;
\* rsi = 100 - 100 / (1 + rs) is then NaN and 100, and 100 * gain / (gain + loss)
\* otherwise; a NaN result is returned as 50.0
CalculateRsi(series, period) ==
  LET gain == RollingGain(series, period)
      loss == RollingLoss(series, period)
  IN IF gain.nan \/ loss.nan THEN Ratio(NeutralRsi, 1)
     ELSE IF loss.v = 0
       THEN IF gain.v = 0 THEN Ratio(NeutralRsi, 1) ELSE Ratio(100, 1)
     ELSE Ratio(100 * gain.v, gain.v + loss.v)

InsufficientData_Inclusive(df, window) == Len(df) <= window

\* len(df) < window
InsufficientData(df, window) == Len(df) < window

\* compute_analytics with the data frame df: the dictionaries it can return.
\* Of the result the model keeps the blocks that need no real arithmetic; an
\* empty frame past the guard raises at iloc[-1], and a rolling window of zero
\* is left to the library.
ComputeAnalytics(df, symbol, window) ==
  IF InsufficientData(df, window)
    THEN { [error |-> "Insufficient data", required |-> window, available |-> Len(df)] }
  ELSE IF Len(df) = 0
    THEN { [error |-> "exception"] }
  ELSE { [symbol |-> symbol,
          price |-> [current |-> df[Len(df)].close,
                     high |-> SeqMax(Column(df, "close")),
                     low |-> SeqMin(Column(df, "close"))],
          statistics |-> [rsi |-> CalculateRsi(Column(df, "close"), RsiPeriod)],
          data_points |-> Len(df)] }
       \cup (IF window = 0 THEN { [error |-> "exception"] } ELSE {})

\* pd.merge(df1, df2, on='timestamp', how='inner'): for each row of df1, in
\* order, one row per row of df2 with the same timestamp
RECURSIVE Merge(_, _)
Merge(df1, df2) ==
  IF df1 = <<>> THEN <<>>
  ELSE LET Matches(r) == r.timestamp = Head(df1).timestamp
           right == SelectSeq(df2, Matches)
       IN [j \in 1..Len(right) |->
             [timestamp |-> Head(df1).timestamp, price1 |-> Head(df1).close,
              price2 |-> right[j].close]]
          \o Merge(Tail(df1), df2)

\* compute_pair_analytics with the frames df1 and df2: <<merged, result>>
ComputePairAnalytics(df1, df2, symbol1, symbol2, window) ==
  IF InsufficientData(df1, window) \/ InsufficientData(df2, window)
    THEN << <<>>, [error |-> "Insufficient data for pair analytics"] >>
  ELSE LET joined == Merge(df1, df2)
       IN IF InsufficientData(joined, window)
            THEN << joined, [error |-> "Insufficient aligned data"] >>
          ELSE IF Len(joined) = 0
            THEN << joined, [error |-> "exception"] >>
          ELSE << joined, [symbols |-> <<symbol1, symbol2>>, data_points |-> Len(joined)] >>

(***************************************************************************)
(* analytics_engine.py: AnalyticsEngine.backtest_mean_reversion            *)
(* z-scores count in tenths.                                               *)
(***************************************************************************)
BacktestRow_ExitMinusEntry(st, row) ==
  IF ~st.in_position /\ Gt(row.zscore, EntryZ)
    THEN [in_position |-> TRUE, entry_price |-> row.spread,
          positions |-> Append(st.positions,
                               [entry |-> row.spread, entry_time |-> row.timestamp])]
  ELSE IF st.in_position /\ Lt(row.zscore, ExitZ)
    THEN LET last == st.positions[Len(st.positions)]
         IN [in_position |-> FALSE, entry_price |-> st.entry_price,
             positions |-> [st.positions EXCEPT ![Len(st.positions)] =
                              [entry |-> last.entry, entry_time |-> last.entry_time,
                               exit |-> row.spread, exit_time |-> row.timestamp,
                               pnl |-> row.spread - st.entry_price]]]
  ELSE st

BacktestRow_Reenters(st, row) ==
  IF Gt(row.zscore, EntryZ)
    THEN [in_position |-> TRUE, entry_price |-> row.spread,
          positions |-> Append(st.positions,
                               [entry |-> row.spread, entry_time |-> row.timestamp])]
  ELSE IF st.in_position /\ Lt(row.zscore, ExitZ)
    THEN LET last == st.positions[Len(st.positions)]
         IN [in_position |-> FALSE, entry_price |-> st.entry_price,
             positions |-> [st.positions EXCEPT ![Len(st.positions)] =
                              [entry |-> last.entry, entry_time |-> last.entry_time,
                               exit |-> row.spread, exit_time |-> row.timestamp,
                               pnl |-> st.entry_price - row.spread]]]
  ELSE st

\* One pass of the loop over merged.iterrows()
BacktestRow(st, row) ==
  IF ~st.in_position /\ Gt(row.zscore, EntryZ)
    THEN [in_position |-> TRUE, entry_price |-> row.spread,
          positions |-> Append(st.positions,
                               [entry |-> row.spread, entry_time |-> row.timestamp])]
  ELSE IF st.in_position /\ Lt(row.zscore, ExitZ)
    THEN LET last == st.positions[Len(st.positions)]
         IN [in_position |-> FALSE, entry_price |-> st.entry_price,
             positions |-> [st.positions EXCEPT ![Len(st.positions)] =
                              [entry |-> last.entry, entry_time |-> last.entry_time,
                               exit |-> row.spread, exit_time |-> row.timestamp,
                               pnl |-> st.entry_price - row.spread]]]
  ELSE st

HasPnl(p) == "pnl" \in DOMAIN p
IsWin(p) == p.pnl > 0

\* [p for p in positions if 'pnl' in p]
CompletedTrades(pos) == SelectSeq(pos, HasPnl)

RECURSIVE SumPnl(_)
SumPnl(trades) == IF trades = <<>> THEN 0 ELSE Head(trades).pnl + SumPnl(Tail(trades))

BacktestStats_CountsOpen(pos) ==
  LET completed_trades == CompletedTrades(pos)
  IN IF completed_trades # <<>>
       THEN [total_trades |-> Len(pos),
             total_pnl |-> SumPnl(completed_trades),
             win_rate |-> Ratio(Len(SelectSeq(completed_trades, IsWin)), Len(pos)),
             avg_pnl_per_trade |-> Ratio(SumPnl(completed_trades), Len(pos)),
             trades |-> FirstN(completed_trades, TradesShown)]
       ELSE [total_trades |-> Len(pos), total_pnl |-> 0, win_rate |-> Ratio(0, 1),
             avg_pnl_per_trade |-> Ratio(0, 1), trades |-> <<>>]

\* The statistics and the dictionary backtest_mean_reversion returns
BacktestStats(pos) ==
  LET completed_trades == CompletedTrades(pos)
  IN IF completed_trades # <<>>
       THEN [total_trades |-> Len(completed_trades),
             total_pnl |-> SumPnl(completed_trades),
             win_rate |-> Ratio(Len(SelectSeq(completed_trades, IsWin)),
                                Len(completed_trades)),
             avg_pnl_per_trade |-> Ratio(SumPnl(completed_trades), Len(completed_trades)),
             trades |-> FirstN(completed_trades, TradesShown)]
       ELSE [total_trades |-> 0, total_pnl |-> 0, win_rate |-> Ratio(0, 1),
             avg_pnl_per_trade |-> Ratio(0, 1), trades |-> <<>>]

\* Rows of a merged table, <<z-score, spread>>: entries, exits, rows on the
\* two thresholds, a row in between and one whose z-score is NaN (the rows
\* before the rolling window has filled).
RowTable ==
  << <<Real(25), 10>>, <<Real(25), 6>>, <<Real(10), 8>>, <<Real(-5), 6>>,
     <<Real(-5), 10>>, <<Real(20), 8>>, <<Real(0), 8>>, <<NaN, 8>> >>

\* The rows that follow the freely chosen ones: a trade every two rows,
\* winning and losing in turn.
ScheduleTable == << 1, 4, 2, 5 >>

MergedRow(k, timestamp) ==
  [timestamp |-> timestamp, zscore |-> RowTable[k][1], spread |-> RowTable[k][2]]

ScheduledRow(n) == ScheduleTable[(n % Len(ScheduleTable)) + 1]

(***************************************************************************)
(* app.py: create_alert.  A request body is the JSON object it carries.    *)
(***************************************************************************)
Number(n) == [kind |-> "number", value |-> n]
\* a string float() cannot parse, such as "abc"
Text == [kind |-> "text", value |-> 0]

\* The bodies posted to /api/alerts: the requests of AlertTable, two more on
\* analytics metrics, and malformed ones (a condition and a metric the rules
\* do not know, no symbol, a threshold that is not a number).
CreateTable ==
  [i \in 1..Len(AlertTable) |->
     [symbol |-> AlertTable[i][1], metric |-> AlertTable[i][2],
      condition |-> AlertTable[i][3], threshold |-> Number(AlertTable[i][4]),
      message |-> AlertTable[i][5]]]
  \o << [symbol |-> "BTCUSDT", metric |-> "rsi", condition |-> "<",
          threshold |-> Number(2000000), message |-> ""],
         [symbol |-> "BTCUSDT", metric |-> "volatility", condition |-> "==",
          threshold |-> Number(2001), message |-> ""],
         [symbol |-> "BTCUSDT", metric |-> "price", condition |-> "!=",
          threshold |-> Number(0), message |-> ""],
         [symbol |-> "BTCUSDT", metric |-> "spread", condition |-> ">",
          threshold |-> Number(0), message |-> ""],
         [symbol |-> None, metric |-> "price", condition |-> ">",
          threshold |-> Number(0), message |-> ""],
         [symbol |-> "BTCUSDT", metric |-> "price", condition |-> ">",
          threshold |-> Text, message |-> ""] >>

CreateRequests == { CreateTable[i] : i \in 1..Len(CreateTable) }

\* float(data.get('threshold')): the number, or nothing where it raises
Float(x) == IF x.kind = "number" THEN {x.value} ELSE {}

alertVars == <<alerts, triggered_history, now, all_triggered, created>>
storeVars == <<ticks, ohlc, ticksB, ohlcB, imports>>
ingestVars == <<active, websocket, current_symbols, active_symbols, pc, task_symbols,
                conn_log, trace, msgs, stop_requested>>
engineVars == <<call, prices, merged, in_position, entry_price, positions>>

(***************************************************************************)
(* Actions on the store.                                                   *)
(***************************************************************************)
insert_tick(tick) ==
  /\ Len(ticks) < MaxTicks
  /\ \E r \in InsertTick(ticks, ohlc, tick) :
       /\ ticks' = r[1]
       /\ ohlc' = r[2]
  /\ UNCHANGED <<ticksB, ohlcB, imports, alertVars, ingestVars, engineVars>>

update_ohlc(symbol, timestamp) ==
  /\ ohlc' \in UpdateOhlc(ticks, ohlc, symbol, timestamp)
  /\ UNCHANGED <<ticks, ticksB, ohlcB, imports, alertVars, ingestVars, engineVars>>

import_ohlc_csv(file) ==
  /\ imports < MaxImports
  /\ imports' = imports + 1
  /\ ohlc' = ImportOhlcCsv(ohlc, file)
  /\ UNCHANGED <<ticks, ticksB, ohlcB, alertVars, ingestVars, engineVars>>

\* insert_tick on a database that may be in trouble; the call record keeps the
\* fault and that the call returned
insert_tick_under(tick, fault) ==
  /\ Len(ticks) < MaxTicks
  /\ \E r \in InsertTickUnder(ticks, ohlc, tick, fault) :
       /\ ticks' = r[1]
       /\ ohlc' = r[2]
  /\ call' = [op |-> "insert_tick", args |-> tick, fault |-> fault, result |-> "returned"]
  /\ UNCHANGED <<ticksB, ohlcB, imports, alertVars, ingestVars,
                 prices, merged, in_position, entry_price, positions>>

update_ohlc_under(symbol, timestamp, fault) ==
  /\ ohlc' \in UpdateOhlcUnder(ticks, ohlc, symbol, timestamp, fault)
  /\ call' = [op |-> "update_ohlc", args |-> <<symbol, timestamp>>, fault |-> fault,
              result |-> "returned"]
  /\ UNCHANGED <<ticks, ticksB, ohlcB, imports, alertVars, ingestVars,
                 prices, merged, in_position, entry_price, positions>>

\* Two runs of the program on two database files, fed trades independently.
replay_first(tick) ==
  /\ Len(ticks) < MaxReplay
  /\ \E r \in InsertTick(ticks, ohlc, tick) :
       /\ ticks' = r[1]
       /\ ohlc' = r[2]
  /\ UNCHANGED <<ticksB, ohlcB, imports, alertVars, ingestVars, engineVars>>

replay_second(tick) ==
  /\ Len(ticksB) < MaxReplay
  /\ \E r \in InsertTick(ticksB, ohlcB, tick) :
       /\ ticksB' = r[1]
       /\ ohlcB' = r[2]
  /\ UNCHANGED <<ticks, ohlc, imports, alertVars, ingestVars, engineVars>>

(***************************************************************************)
(* data_ingestion.py: DataIngestionService, and the threads of app.py      *)
(***************************************************************************)
Threads == 1..MaxThreads

SymbolLists == { <<"ETHUSDT">> }

Range(s) == { s[i] : i \in 1..Len(s) }

\* What a connection subscribed to the streams of syms can deliver: trades of
\* those symbols, an envelope without 'data', text that is not JSON, and a
\* 'data' payload without the trade fields.
FeedTrades == { Trade(2), Trade(7) }

FeedMessages(syms) ==
  { [kind |-> "trade", data |-> tr] : tr \in { x \in FeedTrades : x.s \in Range(syms) } }
  \cup { [kind |-> "no_data"], [kind |-> "bad_json"], [kind |-> "bad_fields"] }

Step(t, n, step, tf, alert_id) ==
  [task |-> t, msg |-> n, step |-> step, tf |-> tf, alert |-> alert_id]

\* for alert in triggered: self.socketio.emit('alert_triggered', alert)
EmitAlerts(t, n, triggered) ==
  [i \in 1..Len(triggered) |-> Step(t, n, "emit_alert", "", triggered[i].alert_id)]

BarSteps(t, n) ==
  [i \in 1..Len(Timeframes) |-> Step(t, n, "bar", Timeframes[i], 0)]

\* A message whose handling raised: the exception is caught and logged.
MessageError(t, n) ==
  /\ trace' = Append(trace, Step(t, n, "error", "", 0))
  /\ UNCHANGED <<ticks, ohlc, alerts, triggered_history, now, all_triggered>>

ProcessMessage_AlertsFirst(t, n, message) ==
  IF message.kind \in {"bad_json", "bad_fields"}
    THEN MessageError(t, n) /\ UNCHANGED pc
  ELSE IF message.kind = "no_data"
    THEN /\ trace' = Append(trace, Step(t, n, "ignored", "", 0))
         /\ UNCHANGED <<ticks, ohlc, alerts, triggered_history, now, all_triggered, pc>>
  ELSE LET tick == TickOf(message.data)
           r == CheckTick(alerts, triggered_history, tick, now + 1)
       IN /\ \E st \in InsertTick(ticks, ohlc, tick) :
               /\ ticks' = st[1]
               /\ ohlc' = st[2]
          /\ alerts' = r.alerts
          /\ triggered_history' = r.history
          /\ all_triggered' = all_triggered \o r.triggered
          /\ now' = now + 1
          /\ trace' = trace \o << Step(t, n, "persist", "", 0) >> \o BarSteps(t, n)
                        \o << Step(t, n, "eval_alerts", "", 0) >>
                        \o << Step(t, n, "emit_tick", "", 0) >>
                        \o EmitAlerts(t, n, r.triggered)
          /\ UNCHANGED pc

ProcessMessage_NoCatch(t, n, message) ==
  IF message.kind \in {"bad_json", "bad_fields"}
    THEN /\ MessageError(t, n)
         /\ pc' = [pc EXCEPT ![t] = "backoff"]
  ELSE IF message.kind = "no_data"
    THEN /\ trace' = Append(trace, Step(t, n, "ignored", "", 0))
         /\ UNCHANGED <<ticks, ohlc, alerts, triggered_history, now, all_triggered, pc>>
  ELSE LET tick == TickOf(message.data)
           r == CheckTick(alerts, triggered_history, tick, now + 1)
       IN /\ \E st \in InsertTick(ticks, ohlc, tick) :
               /\ ticks' = st[1]
               /\ ohlc' = st[2]
          /\ alerts' = r.alerts
          /\ triggered_history' = r.history
          /\ all_triggered' = all_triggered \o r.triggered
          /\ now' = now + 1
          /\ trace' = trace \o << Step(t, n, "persist", "", 0) >> \o BarSteps(t, n)
                        \o << Step(t, n, "emit_tick", "", 0) >>
                        \o << Step(t, n, "eval_alerts", "", 0) >>
                        \o EmitAlerts(t, n, r.triggered)
          /\ UNCHANGED pc

ProcessMessage_NoDataEmits(t, n, message) ==
  /\ UNCHANGED pc
  /\ IF message.kind \in {"bad_json", "bad_fields"} THEN MessageError(t, n)
     ELSE IF message.kind = "no_data"
       THEN /\ trace' = trace \o << Step(t, n, "ignored", "", 0) >>
                          \o << Step(t, n, "emit_tick", "", 0) >>
            /\ UNCHANGED <<ticks, ohlc, alerts, triggered_history, now, all_triggered>>
     ELSE LET tick == TickOf(message.data)
              r == CheckTick(alerts, triggered_history, tick, now + 1)
          IN /\ \E st \in InsertTick(ticks, ohlc, tick) :
                  /\ ticks' = st[1]
                  /\ ohlc' = st[2]
             /\ alerts' = r.alerts
             /\ triggered_history' = r.history
             /\ all_triggered' = all_triggered \o r.triggered
             /\ now' = now + 1
             /\ trace' = trace \o << Step(t, n, "persist", "", 0) >> \o BarSteps(t, n)
                           \o << Step(t, n, "emit_tick", "", 0) >>
                           \o << Step(t, n, "eval_alerts", "", 0) >>
                           \o EmitAlerts(t, n, r.triggered)

\* process_message, message n of the feed handled by thread t: json.loads and
\* the tick's fields, insert_tick (the row, then a bar per timeframe), the
\* tick_update event, check_alerts (check_tick, then an alert_triggered event
\* per returned alert).  Any exception ends the handling and is logged.
ProcessMessage(t, n, message) ==
  /\ UNCHANGED pc
  /\ IF message.kind \in {"bad_json", "bad_fields"} THEN MessageError(t, n)
     ELSE IF message.kind = "no_data"
       THEN /\ trace' = Append(trace, Step(t, n, "ignored", "", 0))
            /\ UNCHANGED <<ticks, ohlc, alerts, triggered_history, now, all_triggered>>
     ELSE LET tick == TickOf(message.data)
              r == CheckTick(alerts, triggered_history, tick, now + 1)
          IN /\ \E st \in InsertTick(ticks, ohlc, tick) :
                  /\ ticks' = st[1]
                  /\ ohlc' = st[2]
             /\ alerts' = r.alerts
             /\ triggered_history' = r.history
             /\ all_triggered' = all_triggered \o r.triggered
             /\ now' = now + 1
             /\ trace' = trace \o << Step(t, n, "persist", "", 0) >> \o BarSteps(t, n)
                           \o << Step(t, n, "emit_tick", "", 0) >>
                           \o << Step(t, n, "eval_alerts", "", 0) >>
                           \o EmitAlerts(t, n, r.triggered)

\* process_message on a database that may be in trouble: insert_tick logs
\* its exception and returns, and the handler goes on.
ProcessMessageUnder(t, n, message, fault) ==
  /\ UNCHANGED pc
  /\ IF message.kind \in {"bad_json", "bad_fields"} THEN MessageError(t, n)
     ELSE IF message.kind = "no_data"
       THEN /\ trace' = Append(trace, Step(t, n, "ignored", "", 0))
            /\ UNCHANGED <<ticks, ohlc, alerts, triggered_history, now, all_triggered>>
     ELSE LET tick == TickOf(message.data)
              r == CheckTick(alerts, triggered_history, tick, now + 1)
              Written(st) == st.tf \notin fault.bars
          IN /\ \E st \in InsertTickUnder(ticks, ohlc, tick, fault) :
                  /\ ticks' = st[1]
                  /\ ohlc' = st[2]
             /\ alerts' = r.alerts
             /\ triggered_history' = r.history
             /\ all_triggered' = all_triggered \o r.triggered
             /\ now' = now + 1
             /\ trace' = trace
                           \o (IF fault.insert
                                 THEN << Step(t, n, "persist_failed", "", 0) >>
                                 ELSE << Step(t, n, "persist", "", 0) >>
                                        \o SelectSeq(BarSteps(t, n), Written))
                           \o << Step(t, n, "emit_tick", "", 0) >>
                           \o << Step(t, n, "eval_alerts", "", 0) >>
                           \o EmitAlerts(t, n, r.triggered)

Event(ev, seconds) == [ev |-> ev, seconds |-> seconds]

Logged(t, ev, seconds) ==
  conn_log' = [conn_log EXCEPT ![t] = Append(@, Event(ev, seconds))]

Occurrences(t, evs) ==
  Cardinality({ i \in 1..Len(conn_log[t]) : conn_log[t][i].ev \in evs })

RECURSIVE Total(_, _)
Total(evs, threads) ==
  IF threads = {} THEN 0
  ELSE LET t == CHOOSE x \in threads : TRUE
       IN Occurrences(t, evs) + Total(evs, threads \ {t})

\* start, up to the while loop
StartTask(t, syms) ==
  /\ current_symbols' = syms
  /\ active' = TRUE
  /\ task_symbols' = [task_symbols EXCEPT ![t] = syms]
  /\ pc' = [pc EXCEPT ![t] = "loop"]

\* app.py's ingestion thread: loop.run_until_complete(start(active_symbols))
run_data_ingestion ==
  /\ pc[1] = "none"
  /\ StartTask(1, active_symbols)
  /\ UNCHANGED <<websocket, active_symbols, conn_log, trace, msgs, stop_requested,
                 storeVars, alertVars, engineVars>>

\* while self.active:
loop_check(t) ==
  /\ pc[t] = "loop"
  /\ pc' = [pc EXCEPT ![t] = IF active THEN "connect" ELSE "done"]
  /\ UNCHANGED <<active, websocket, current_symbols, active_symbols, task_symbols,
                 conn_log, trace, msgs, stop_requested, storeVars, alertVars, engineVars>>

\* websockets.connect raised: except Exception, on to the sleep
ConnectFailed(t) ==
  /\ pc' = [pc EXCEPT ![t] = "backoff"]
  /\ Logged(t, "connect_failed", 0)
  /\ UNCHANGED websocket

\* async with websockets.connect(ws_url) as websocket
connect(t, ok) ==
  /\ pc[t] = "connect"
  /\ ok \/ Total({"connect_failed"}, Threads) < MaxFails
  /\ IF ok
       THEN /\ websocket' = t
            /\ pc' = [pc EXCEPT ![t] = "recv"]
            /\ Logged(t, "connected", 0)
       ELSE ConnectFailed(t)
  /\ UNCHANGED <<active, current_symbols, active_symbols, task_symbols, trace, msgs,
                 stop_requested, storeVars, alertVars, engineVars>>

Sleep_None(t) ==
  /\ pc' = [pc EXCEPT ![t] = "loop"]
  /\ UNCHANGED conn_log

\* await asyncio.sleep(5) of either except clause
Sleep(t) ==
  /\ pc' = [pc EXCEPT ![t] = "loop"]
  /\ Logged(t, "sleep", BackoffSeconds)

backoff(t) ==
  /\ pc[t] = "backoff"
  /\ Sleep(t)
  /\ UNCHANGED <<active, websocket, current_symbols, active_symbols, task_symbols,
                 trace, msgs, stop_requested, storeVars, alertVars, engineVars>>

\* async for message in websocket: the next message arrives
receive_NoBreak(t, message) ==
  /\ pc[t] = "recv"
  /\ msgs < MaxMsgs
  /\ msgs' = msgs + 1
  /\ ProcessMessage(t, msgs + 1, message)
  /\ UNCHANGED conn_log
  /\ UNCHANGED <<active, websocket, current_symbols, active_symbols, task_symbols,
                 stop_requested, ticksB, ohlcB, imports, created, engineVars>>

receive(t, message) ==
  /\ pc[t] = "recv"
  /\ msgs < MaxMsgs
  /\ msgs' = msgs + 1
  /\ IF ~active
       THEN /\ pc' = [pc EXCEPT ![t] = "loop"]
            /\ Logged(t, "break", 0)
            /\ UNCHANGED <<trace, ticks, ohlc, alerts, triggered_history, now,
                           all_triggered>>
       ELSE /\ ProcessMessage(t, msgs + 1, message)
            /\ UNCHANGED conn_log
  /\ UNCHANGED <<active, websocket, current_symbols, active_symbols, task_symbols,
                 stop_requested, ticksB, ohlcB, imports, created, engineVars>>

\* The next message arrives while the database may be in trouble
receive_under(t, message, fault) ==
  /\ pc[t] = "recv"
  /\ msgs < MaxMsgs
  /\ msgs' = msgs + 1
  /\ IF ~active
       THEN /\ pc' = [pc EXCEPT ![t] = "loop"]
            /\ Logged(t, "break", 0)
            /\ UNCHANGED <<trace, ticks, ohlc, alerts, triggered_history, now,
                           all_triggered>>
       ELSE /\ ProcessMessageUnder(t, msgs + 1, message, fault)
            /\ UNCHANGED conn_log
  /\ UNCHANGED <<active, websocket, current_symbols, active_symbols, task_symbols,
                 stop_requested, ticksB, ohlcB, imports, created, engineVars>>

\* The connection ends while the thread waits for a message: the iterator
\* raises ConnectionClosed on an abnormal close and just ends on a normal one.
connection_closed(t, normal) ==
  /\ pc[t] = "recv"
  /\ Total({"closed_error", "closed_ok"}, Threads) < MaxCloses
  /\ IF normal
       THEN /\ pc' = [pc EXCEPT ![t] = "loop"]
            /\ Logged(t, "closed_ok", 0)
       ELSE /\ pc' = [pc EXCEPT ![t] = "backoff"]
            /\ Logged(t, "closed_error", 0)
  /\ UNCHANGED <<active, websocket, current_symbols, active_symbols, task_symbols,
                 trace, msgs, stop_requested, storeVars, alertVars, engineVars>>

stop ==
  /\ active
  /\ active' = FALSE
  /\ stop_requested' = TRUE
  /\ UNCHANGED <<websocket, current_symbols, active_symbols, pc, task_symbols,
                 conn_log, trace, msgs, storeVars, alertVars, engineVars>>

\* update_symbols starts a thread on restart_with_symbols, which clears the
\* flag and, with a websocket set, calls asyncio.create_task outside any event
\* loop: RuntimeError, the thread ends.  Otherwise it goes on to sleep.
update_symbols(t, new_symbols) ==
  /\ t # 1
  /\ pc[1] # "none"
  /\ pc[t] = "none"
  /\ active_symbols' = new_symbols
  /\ active' = FALSE
  /\ stop_requested' = TRUE
  /\ task_symbols' = [task_symbols EXCEPT ![t] = new_symbols]
  /\ pc' = [pc EXCEPT ![t] = IF websocket # 0 THEN "crashed" ELSE "restart_sleep"]
  /\ UNCHANGED <<websocket, current_symbols, conn_log, trace, msgs,
                 storeVars, alertVars, engineVars>>

\* restart_with_symbols: asyncio.run(asyncio.sleep(2)), asyncio.run(self.start(symbols))
restart_wake(t) ==
  /\ pc[t] = "restart_sleep"
  /\ StartTask(t, task_symbols[t])
  /\ Logged(t, "restart_sleep", RestartSeconds)
  /\ UNCHANGED <<websocket, active_symbols, trace, msgs, stop_requested,
                 storeVars, alertVars, engineVars>>

(***************************************************************************)
(* Actions on the alert manager.                                           *)
(***************************************************************************)
add_alert(req) ==
  /\ alerts' = AddAlert(alerts, created + 1, req)
  /\ created' = created + 1
  /\ UNCHANGED <<triggered_history, now, all_triggered, storeVars, ingestVars, engineVars>>

remove_alert(alert_id) ==
  /\ alerts' = RemoveAlert(alerts, alert_id)
  /\ call' = [op |-> "remove_alert", args |-> alert_id, result |-> None]
  /\ UNCHANGED <<triggered_history, now, all_triggered, created, storeVars, ingestVars,
                 prices, merged, in_position, entry_price, positions>>

get_all_alerts ==
  /\ call' = [op |-> "get_all_alerts", args |-> <<>>, result |-> alerts]
  /\ UNCHANGED <<alertVars, storeVars, ingestVars,
                 prices, merged, in_position, entry_price, positions>>

get_triggered_history(limit) ==
  /\ call' = [op |-> "get_triggered_history", args |-> limit,
              result |-> GetTriggeredHistory(triggered_history, limit)]
  /\ UNCHANGED <<alertVars, storeVars, ingestVars,
                 prices, merged, in_position, entry_price, positions>>

clear_history ==
  /\ triggered_history' = <<>>
  /\ call' = [op |-> "clear_history", args |-> <<>>, result |-> None]
  /\ UNCHANGED <<alerts, now, all_triggered, created, storeVars, ingestVars,
                 prices, merged, in_position, entry_price, positions>>

(***************************************************************************)
(* check_alerts in the ingestion task, a rule at a time, while request     *)
(* threads add and remove rules.  The call record holds the iterator of    *)
(* self.alerts.items(): the size of the dict when the loop began and the   *)
(* place of the next entry.                                                *)
(***************************************************************************)
Running == call.op = "check_alerts" /\ call.status = "running"

\* check_alerts(tick) enters check_tick
check_alerts_begin(tick) ==
  /\ ~Running
  /\ now' = now + 1
  /\ call' = [op |-> "check_alerts", args |-> tick, status |-> "running",
              used |-> Len(alerts), at |-> 1, present |-> { alerts[i].id : i \in 1..Len(alerts) },
              triggered |-> <<>>, emitted |-> <<>>]
  /\ UNCHANGED <<alerts, triggered_history, all_triggered, created, storeVars, ingestVars,
                 prices, merged, in_position, entry_price, positions>>

\* The iterator's next(): RuntimeError when the dict changed size, which ends
\* check_tick and check_alerts in the except clause of process_message; at the
\* end of the dict check_tick returns and check_alerts emits an event per
\* returned alert; otherwise the loop body runs on the next rule.
check_alerts_next ==
  /\ Running
  /\ IF Len(alerts) # call.used
       THEN /\ call' = [call EXCEPT !.status = "raised"]
            /\ UNCHANGED <<alerts, triggered_history, all_triggered>>
     ELSE IF call.at > Len(alerts)
       THEN /\ call' = [call EXCEPT !.status = "returned", !.emitted = call.triggered]
            /\ UNCHANGED <<alerts, triggered_history, all_triggered>>
     ELSE LET st == CheckTickAt([alerts |-> alerts, history |-> triggered_history,
                                 triggered |-> call.triggered], call.at, call.args, now)
          IN /\ alerts' = st.alerts
             /\ triggered_history' = st.history
             /\ all_triggered' = all_triggered \o SubSeq(st.triggered, Len(call.triggered) + 1,
                                                         Len(st.triggered))
             /\ call' = [call EXCEPT !.at = @ + 1, !.triggered = st.triggered]
  /\ UNCHANGED <<now, created, storeVars, ingestVars,
                 prices, merged, in_position, entry_price, positions>>

\* DELETE /api/alerts/<alert_id> from a request thread: the entries after the
\* removed one move up under a running iterator
delete_alert(alert_id) ==
  /\ alerts' = RemoveAlert(alerts, alert_id)
  /\ call' = IF Running /\ (\E i \in 1..Len(alerts) : i < call.at /\ alerts[i].id = alert_id)
               THEN [call EXCEPT !.at = @ - 1]
               ELSE call
  /\ UNCHANGED <<triggered_history, now, all_triggered, created, storeVars, ingestVars,
                 prices, merged, in_position, entry_price, positions>>

\* POST /api/alerts: float() of the threshold, then add_alert; an exception
\* of float() ends the request with status 500.
create_alert(data) ==
  /\ IF Float(data.threshold) = {}
       THEN /\ call' = [op |-> "create_alert", args |-> data, result |-> 500]
            /\ UNCHANGED <<alerts, created>>
       ELSE LET req == [symbol |-> data.symbol, metric |-> data.metric,
                        condition |-> data.condition,
                        threshold |-> CHOOSE x \in Float(data.threshold) : TRUE,
                        message |-> data.message]
            IN /\ alerts' = AddAlert(alerts, created + 1, req)
               /\ created' = created + 1
               /\ call' = [op |-> "create_alert", args |-> data, result |-> 200]
  /\ UNCHANGED <<triggered_history, now, all_triggered, storeVars, ingestVars,
                 prices, merged, in_position, entry_price, positions>>

check_tick(tick) ==
  LET r == CheckTick(alerts, triggered_history, tick, now + 1)
  IN /\ alerts' = r.alerts
     /\ triggered_history' = r.history
     /\ all_triggered' = all_triggered \o r.triggered
     /\ now' = now + 1
     /\ call' = [op |-> "check_tick", args |-> tick, result |-> r.triggered]
     /\ UNCHANGED <<created, storeVars, ingestVars, prices, merged, in_position,
                     entry_price, positions>>

check_analytics(analytics) ==
  LET r == CheckAnalytics(alerts, triggered_history, analytics, now + 1)
  IN /\ alerts' = r.alerts
     /\ triggered_history' = r.history
     /\ all_triggered' = all_triggered \o r.triggered
     /\ now' = now + 1
     /\ call' = [op |-> "check_analytics", args |-> analytics, result |-> r.triggered]
     /\ UNCHANGED <<created, storeVars, ingestVars, prices, merged, in_position,
                     entry_price, positions>>

(***************************************************************************)
(* Actions on the analytics engine.                                        *)
(***************************************************************************)
\* backtest_mean_reversion, the loop taking the next row of the merged
\* table (rows come in timestamp order: timestamp is the row's place).
backtest_row(k) ==
  /\ call.op # "backtest_mean_reversion"
  /\ LET row == MergedRow(k, Len(merged) + 1)
         st == BacktestRow([in_position |-> in_position, entry_price |-> entry_price,
                            positions |-> positions], row)
     IN /\ merged' = Append(merged, row)
        /\ in_position' = st.in_position
        /\ entry_price' = st.entry_price
        /\ positions' = st.positions
  /\ UNCHANGED <<call, prices, storeVars, alertVars, ingestVars>>

\* backtest_mean_reversion, after the loop
backtest_return ==
  /\ call.op # "backtest_mean_reversion"
  /\ call' = [op |-> "backtest_mean_reversion", args |-> merged,
              result |-> BacktestStats(positions)]
  /\ UNCHANGED <<prices, merged, in_position, entry_price, positions,
                 storeVars, alertVars, ingestVars>>

\* compute_analytics(symbol, timeframe, window); the call record keeps the
\* frame the store returned
compute_analytics(symbol, timeframe, window) ==
  /\ \E df \in GetDataframe(ticks, ohlc, symbol, timeframe, FrameLimit) :
       \E result \in ComputeAnalytics(df, symbol, window) :
         call' = [op |-> "compute_analytics", args |-> <<symbol, timeframe, window>>,
                  frames |-> <<df>>, result |-> result]
  /\ UNCHANGED <<prices, merged, in_position, entry_price, positions,
                 storeVars, alertVars, ingestVars>>

\* compute_pair_analytics(symbol1, symbol2, timeframe, window)
compute_pair_analytics(symbol1, symbol2, timeframe, window) ==
  /\ \E df1 \in GetDataframe(ticks, ohlc, symbol1, timeframe, FrameLimit) :
       \E df2 \in GetDataframe(ticks, ohlc, symbol2, timeframe, FrameLimit) :
         LET r == ComputePairAnalytics(df1, df2, symbol1, symbol2, window)
         IN /\ merged' = r[1]
            /\ call' = [op |-> "compute_pair_analytics",
                        args |-> <<symbol1, symbol2, timeframe, window>>,
                        frames |-> <<df1, df2>>, result |-> r[2]]
  /\ UNCHANGED <<prices, in_position, entry_price, positions,
                 storeVars, alertVars, ingestVars>>

\* A close price joins the series _calculate_rsi is given
next_price(p) ==
  /\ call.op = "none"
  /\ prices' = Append(prices, p)
  /\ UNCHANGED <<call, merged, in_position, entry_price, positions,
                 storeVars, alertVars, ingestVars>>

\* _calculate_rsi(prices, 14)
calculate_rsi ==
  /\ call.op = "none"
  /\ call' = [op |-> "_calculate_rsi", args |-> prices,
              result |-> CalculateRsi(prices, RsiPeriod)]
  /\ UNCHANGED <<prices, merged, in_position, entry_price, positions,
                 storeVars, alertVars, ingestVars>>

vars == <<ticks, ohlc, ticksB, ohlcB, imports,
          alerts, triggered_history, now, all_triggered, created,
          active, websocket, current_symbols, active_symbols, pc, task_symbols,
          conn_log, trace, msgs, stop_requested,
          call, prices, merged, in_position, entry_price, positions>>

Init ==
  /\ ticks = <<>>
  /\ ohlc = <<>>
  /\ ticksB = <<>>
  /\ ohlcB = <<>>
  /\ imports = 0
  /\ alerts = <<>>
  /\ triggered_history = <<>>
  /\ now = 0
  /\ all_triggered = <<>>
  /\ created = 0
  /\ active = FALSE
  /\ websocket = 0
  /\ current_symbols = <<>>
  /\ active_symbols = <<"BTCUSDT", "ETHUSDT">>
  /\ pc = [t \in Threads |-> "none"]
  /\ task_symbols = [t \in Threads |-> <<>>]
  /\ conn_log = [t \in Threads |-> <<>>]
  /\ trace = <<>>
  /\ msgs = 0
  /\ stop_requested = FALSE
  /\ call = [op |-> "none"]
  /\ prices = <<>>
  /\ merged = <<>>
  /\ in_position = FALSE
  /\ entry_price = 0
  /\ positions = <<>>

NextTicks == \E tick \in Ticks : insert_tick(tick)

SpecTicks == Init /\ [][NextTicks]_vars

NextOrder ==
  \/ \E tick \in Ticks : replay_first(tick)
  \/ \E tick \in Ticks : replay_second(tick)

SpecOrder == Init /\ [][NextOrder]_vars

\* The ticks the store runs are fed: two on one timestamp and one of the
\* other symbol.
StoreTicks == { TickOf(Trade(i)) : i \in {1, 2, 7} }

NextStore ==
  \/ \E tick \in StoreTicks : insert_tick(tick)
  \/ \E tick \in StoreTicks : update_ohlc(tick.symbol, tick.timestamp)
  \/ \E file \in CsvFiles : import_ohlc_csv(file)

SpecStore == Init /\ [][NextStore]_vars

\* The history runs: rules are created, then ticks of the catalogue and
\* analytics snapshots are checked in turn.
ScheduledTick(n) == TickOf(Trade(((n \div 2) % Len(TradeTable)) + 1))
ScheduledSnapshot(n) == SnapshotTable[((n \div 2) % Len(SnapshotTable)) + 1]

NextHistory ==
  \/ \E req \in AlertRequests :
       now = 0 /\ Len(alerts) < MaxRules /\ add_alert(req)
  \/ now < MaxCalls /\ now % 2 = 0 /\ check_tick(ScheduledTick(now))
  \/ now < MaxCalls /\ now % 2 = 1 /\ check_analytics(ScheduledSnapshot(now))

SpecHistory == Init /\ [][NextHistory]_vars

\* The program as app.py runs it: the ingestion thread, the feed, and the
\* requests that create alerts, change the symbols and stop the service.
Next ==
  \/ run_data_ingestion
  \/ \E t \in Threads : loop_check(t)
  \/ \E t \in Threads, ok \in BOOLEAN : connect(t, ok)
  \/ \E t \in Threads : backoff(t)
  \/ \E t \in Threads : \E message \in FeedMessages(task_symbols[t]) : receive(t, message)
  \/ \E t \in Threads, normal \in BOOLEAN : connection_closed(t, normal)
  \/ stop
  \/ \E t \in Threads, new_symbols \in SymbolLists : update_symbols(t, new_symbols)
  \/ \E t \in Threads : restart_wake(t)
  \/ \E req \in { AlertRequest(1) } :
       Len(alerts) < MaxAlerts /\ add_alert(req)

Spec == Init /\ [][Next]_vars

\* The ingestion thread of app.py on its own: the feed, the alerts created
\* meanwhile and a stop of the service, with no change of symbols.
NextStream ==
  \/ run_data_ingestion
  \/ \E t \in Threads : loop_check(t)
  \/ \E t \in Threads, ok \in BOOLEAN : connect(t, ok)
  \/ \E t \in Threads : backoff(t)
  \/ \E t \in Threads : \E message \in FeedMessages(task_symbols[t]) : receive(t, message)
  \/ \E t \in Threads, normal \in BOOLEAN : connection_closed(t, normal)
  \/ stop
  \/ \E req \in { AlertRequest(1) } :
       Len(alerts) < MaxAlerts /\ add_alert(req)

SpecStream == Init /\ [][NextStream]_vars

\* The streaming task under its scheduler: the event loop resumes a coroutine
\* whose sleep has elapsed and runs the while test that follows, so a task
\* at the test or in a backoff does not wait forever.  A message or the end
\* of a connection is the server's move and is not assumed.
SpecStop ==
  /\ Init
  /\ [][NextStream]_vars
  /\ \A t \in Threads : WF_vars(loop_check(t)) /\ WF_vars(backoff(t))

\* The alert manager behind its requests: alerts are created, ticks and
\* analytics snapshots are checked.
AlertTicks == { TickOf(Trade(i)) : i \in {1, 2, 5, 6, 7} }

NextAlerts ==
  \/ \E data \in CreateRequests : Len(alerts) < MaxRules /\ create_alert(data)
  \/ \E tick \in AlertTicks : now < MaxChecks /\ check_tick(tick)
  \/ \E analytics \in Snapshots : now < MaxChecks /\ check_analytics(analytics)

SpecAlerts == Init /\ [][NextAlerts]_vars

\* The alert manager as its callers use it: rules come and go, ticks and
\* snapshots are checked, the rules and the history are read and cleared.
RuleRequests == { AlertRequest(i) : i \in 1..3 }
RuleTicks == { TickOf(Trade(i)) : i \in {2, 7} }
Limits == {0, 1, 2, 50}

NextRules ==
  \/ \E req \in RuleRequests : created < MaxRules /\ add_alert(req)
  \/ \E alert_id \in 1..MaxRules : remove_alert(alert_id)
  \/ \E tick \in RuleTicks : now < MaxChecks /\ check_tick(tick)
  \/ \E analytics \in Snapshots : now < MaxChecks /\ check_analytics(analytics)
  \/ get_all_alerts
  \/ \E limit \in Limits : get_triggered_history(limit)
  \/ clear_history

SpecRules == Init /\ [][NextRules]_vars

\* check_alerts of the ingestion task against the request threads of the
\* alert endpoints.
NextRace ==
  \/ \E req \in RuleRequests : created < MaxRules + 1 /\ add_alert(req)
  \/ \E alert_id \in 1..(MaxRules + 1) : delete_alert(alert_id)
  \/ \E tick \in RuleTicks : now < MaxChecks /\ check_alerts_begin(tick)
  \/ check_alerts_next

SpecRace == Init /\ [][NextRace]_vars

\* A backtest over a merged table whose first rows are any rows of RowTable
\* and whose later rows follow the schedule.
NextBacktest ==
  \/ \E k \in 1..Len(RowTable) :
       Len(merged) < MaxFreeRows /\ Len(merged) < MaxRows /\ backtest_row(k)
  \/ /\ Len(merged) >= MaxFreeRows
     /\ Len(merged) < MaxRows
     /\ backtest_row(ScheduledRow(Len(merged)))
  \/ backtest_return

SpecBacktest == Init /\ [][NextBacktest]_vars

\* The engine over a store fed by the stream: ticks of both symbols, one
\* instant shared by the two.
EngineTicks == { TickOf(Trade(i)) : i \in {1, 3, 7} }
FrameTimeframes == {"tick", "1s", "1m"}
Windows == {0, 1, 2, 20}

NextEngine ==
  \/ \E tick \in EngineTicks : insert_tick(tick)
  \/ \E symbol \in Symbols, timeframe \in FrameTimeframes, window \in Windows :
       compute_analytics(symbol, timeframe, window)
  \/ \E timeframe \in FrameTimeframes, window \in Windows :
       compute_pair_analytics("BTCUSDT", "ETHUSDT", timeframe, window)

SpecEngine == Init /\ [][NextEngine]_vars

\* _calculate_rsi on every series of two price levels
PriceLevels == {100, 101}

NextRsi ==
  \/ \E p \in PriceLevels : Len(prices) < MaxPrices /\ next_price(p)
  \/ calculate_rsi

SpecRsi == Init /\ [][NextRsi]_vars

\* The store written by insert_tick and update_ohlc on a database that may be
\* in trouble, and read by the engine and the alert manager meanwhile.
DurableTicks == { TickOf(Trade(i)) : i \in {1, 4} }

NextDurable ==
  \/ \E tick \in DurableTicks, fault \in Faults : insert_tick_under(tick, fault)
  \/ \E tick \in DurableTicks, fault \in { f \in Faults : ~f.insert } :
       update_ohlc_under(tick.symbol, tick.timestamp, fault)
  \/ \E symbol \in Symbols : compute_analytics(symbol, "1m", 1)
  \/ compute_pair_analytics("BTCUSDT", "ETHUSDT", "tick", 1)
  \/ \E tick \in DurableTicks : now < MaxChecks /\ check_tick(tick)

SpecDurable == Init /\ [][NextDurable]_vars

\* The ingestion thread over a database that may be in trouble.
NextStreamUnder ==
  \/ run_data_ingestion
  \/ \E t \in Threads : loop_check(t)
  \/ \E t \in Threads : connect(t, TRUE)
  \/ \E t \in Threads : \E message \in FeedMessages(task_symbols[t]), fault \in Faults :
       receive_under(t, message, fault)
  \/ stop
  \/ \E req \in { AlertRequest(1), AlertRequest(5) } :
       Len(alerts) < MaxAlerts /\ add_alert(req)

SpecStreamUnder == Init /\ [][NextStreamUnder]_vars

(***************************************************************************)
(* Properties of the store.                                                *)
(***************************************************************************)
RECURSIVE SumQuantity(_, _)
SumQuantity(tk, rows) ==
  IF rows = {} THEN 0
  ELSE LET i == CHOOSE x \in rows : TRUE
       IN tk[i].quantity + SumQuantity(tk, rows \ {i})

\* The rows of tk for symbol whose time lies in [bucket_start, bucket_start + D).
TicksOfBucket(tk, symbol, bucket_start, D) ==
  { i \in 1..Len(tk) :
      /\ tk[i].symbol = symbol
      /\ bucket_start <= ToDatetime(tk[i].timestamp)
      /\ ToDatetime(tk[i].timestamp) < bucket_start + D }

BarAggregates(tk, bar) ==
  /\ bar.timeframe \in {"1s", "1m", "5m"}
  /\ bar.timestamp.fmt = "space"
  /\ LET D == TimeframeSeconds(bar.timeframe) * MsPerSec
         bs == ToDatetime(bar.timestamp)
         S == TicksOfBucket(tk, bar.symbol, bs, D)
         time(i) == ToDatetime(tk[i].timestamp)
     IN /\ bs % D = 0
        /\ S # {}
        /\ \E i \in S : (\A j \in S : time(i) <= time(j)) /\ bar.open = tk[i].price
        /\ \E i \in S : (\A j \in S : time(j) <= time(i)) /\ bar.close = tk[i].price
        /\ \E i \in S : bar.high = tk[i].price
        /\ \E i \in S : bar.low = tk[i].price
        /\ \A i \in S : bar.low <= tk[i].price /\ tk[i].price <= bar.high
        /\ bar.volume = SumQuantity(tk, S)

\* C1: after any sequence of insert_tick calls every stored bar starts on a
\* multiple of its timeframe's duration, and its open, high, low, close and
\* volume are the price of an earliest tick, the largest and smallest price,
\* the price of a latest tick and the sum of the quantities of exactly the
\* stored ticks of its symbol in [bucket_start, bucket_start + D).
C1_BarsAggregateTheirTicks ==
  \A k \in 1..Len(ohlc) : BarAggregates(ticks, ohlc[k])

\* A 5m bar off the hour's first bucket built from ticks that arrived out of
\* time order, with open, close, high and low all told apart.
C1_Witness ==
  \E k \in 1..Len(ohlc) :
    /\ ohlc[k].timeframe = "5m"
    /\ ohlc[k].high > ohlc[k].low
    /\ ohlc[k].open # ohlc[k].close
    /\ Cardinality(TicksOfBucket(ticks, ohlc[k].symbol, ToDatetime(ohlc[k].timestamp),
                                 300 * MsPerSec)) >= 2
    /\ \E i, j \in 1..Len(ticks) :
         i < j /\ ToDatetime(ticks[j].timestamp) < ToDatetime(ticks[i].timestamp)

RECURSIVE Dedup(_)
Dedup(tk) ==
  IF tk = <<>> THEN <<>>
  ELSE LET init == Dedup(SubSeq(tk, 1, Len(tk) - 1))
           last == tk[Len(tk)]
       IN IF \E i \in 1..Len(init) : init[i] = last THEN init ELSE Append(init, last)

\* C2: feeding the same set of ticks again leaves the bars of feeding it once:
\* every bar is a bar the ticks, each counted once, aggregate to.
C2_ReplayLeavesTheBar ==
  \A k \in 1..Len(ohlc) :
    LET bar == ohlc[k]
    IN \E df \in BucketQuery(Dedup(ticks), bar.symbol, bar.timeframe,
                             TimeframeSeconds(bar.timeframe), ToDatetime(bar.timestamp)) :
         Len(df) > 0 /\
         bar = OhlcData(df, bar.symbol, bar.timeframe, ToDatetime(bar.timestamp))

Count(tk, row) == Cardinality({ i \in 1..Len(tk) : tk[i] = row })

SameTicks(tk1, tk2) ==
  /\ Len(tk1) = Len(tk2)
  /\ \A i \in 1..Len(tk1) : Count(tk1, tk1[i]) = Count(tk2, tk1[i])

Rows(table) == { table[i] : i \in 1..Len(table) }

\* C3: two runs fed the same ticks, in whatever order each received them
\* (late ticks and ticks on one timestamp included), end with the same bars.
C3_ArrivalOrderIndependent ==
  (SameTicks(ticks, ticksB) /\ ticks # ticksB) => Rows(ohlc) = Rows(ohlcB)

\* C4: at most one bar per symbol, timeframe and bucket start.
C4_OneBarPerBucket ==
  \A i, j \in 1..Len(ohlc) :
    ( /\ ohlc[i].symbol = ohlc[j].symbol
      /\ ohlc[i].timeframe = ohlc[j].timeframe
      /\ ToDatetime(ohlc[i].timestamp) = ToDatetime(ohlc[j].timestamp) ) => i = j

(***************************************************************************)
(* Properties of the alert manager.                                        *)
(***************************************************************************)
\* C10: after any sequence of check_tick and check_analytics calls the
\* history holds at most 100 entries, and they are the most recent
\* min(100, total) triggered alerts in trigger order.
C10_HistoryIsLatestHundred ==
  /\ Len(triggered_history) <= HistoryLimit
  /\ triggered_history = LastN(all_triggered, HistoryLimit)

\* More than 100 alerts were triggered, by ticks and by snapshots, one call
\* triggered two rules, and the oldest alert is gone from the history.
C10_Witness ==
  /\ Len(all_triggered) > HistoryLimit
  /\ triggered_history[1] # all_triggered[1]
  /\ \E i \in 1..(Len(triggered_history) - 1) :
       /\ triggered_history[i].alert_id # triggered_history[i + 1].alert_id
       /\ triggered_history[i].timestamp = triggered_history[i + 1].timestamp
  /\ \E i, j \in 1..Len(triggered_history) :
       /\ triggered_history[i].value = SnapshotTable[1].price.current
       /\ triggered_history[j].metric = "volume"

(***************************************************************************)
(* Properties of the ingestion service.                                    *)
(***************************************************************************)
SameMessage(a, b) == a.task = b.task /\ a.msg = b.msg

\* The place of a step in the order persist, bars, alerts, events.
StatedRank(st) ==
  CASE st.step = "persist" -> 1
    [] st.step = "bar" -> 2
    [] st.step = "eval_alerts" -> 3
    [] st.step \in {"emit_tick", "emit_alert"} -> 4
    [] OTHER -> 0

\* The place of a step in the order persist, the 1s, 1m and 5m bar, the
\* tick_update event, check_tick, the alert_triggered events.
HandlerRank(st) ==
  CASE st.step = "persist" -> 1
    [] st.step = "bar" /\ st.tf = "1s" -> 2
    [] st.step = "bar" /\ st.tf = "1m" -> 3
    [] st.step = "bar" /\ st.tf = "5m" -> 4
    [] st.step = "emit_tick" -> 5
    [] st.step = "eval_alerts" -> 6
    [] st.step = "emit_alert" -> 7
    [] OTHER -> 0

\* C5 as stated: the steps of a message come in the order persist, bars,
\* evaluate alerts, emit events, so that no event of the message is emitted
\* before its alerts were evaluated, and the steps of a message all come
\* before those of the next.
C5_EventsAfterAlerts ==
  \A i, j \in 1..Len(trace) :
    i < j =>
      /\ trace[i].msg <= trace[j].msg
      /\ SameMessage(trace[i], trace[j]) => StatedRank(trace[i]) <= StatedRank(trace[j])

FirstOfMessage(i) == i = 1 \/ trace[i - 1].msg # trace[i].msg

LastOfMessage(i) == i = Len(trace) \/ trace[i + 1].msg # trace[i].msg

\* C5: the steps of a trade message come in the order persist, the bar of
\* each timeframe (1s, 1m, 5m), the tick_update event, the evaluation of the
\* alerts, the alert_triggered events; each of the first six happens exactly
\* once, and the steps of a message all come before those of the next.
C5_StepsInHandlerOrder ==
  \A i \in 1..Len(trace) :
    LET r == HandlerRank(trace[i])
    IN /\ i < Len(trace) => trace[i].msg <= trace[i + 1].msg
       /\ r = 0 => FirstOfMessage(i) /\ LastOfMessage(i)
       /\ r = 1 <=> (r > 0 /\ FirstOfMessage(i))
       /\ r \in 2..6 => HandlerRank(trace[i - 1]) = r - 1
       /\ r = 7 => HandlerRank(trace[i - 1]) \in {6, 7}
       /\ (r > 0 /\ LastOfMessage(i)) => r >= 6

\* A trade triggered an alert, its events went out, and the same task
\* handled a later trade.
C5_Witness ==
  \E i, j \in 1..Len(trace) :
    /\ i < j
    /\ trace[i].step = "emit_alert"
    /\ trace[j].step = "persist"
    /\ trace[i].task = trace[j].task
    /\ trace[i].msg < trace[j].msg

\* C6: at most one task of the service is in its connect/process loop with
\* a connection open, able to write to the store.
C6_SingleStreamingTask ==
  active => Cardinality({ t \in Threads : pc[t] = "recv" }) <= 1

ConnectionEnds == {"connect_failed", "closed_error", "closed_ok"}

\* C7: whatever ended a connection (a failed attempt, an abnormal close, a
\* normal close), the next thing the loop does is the 5-second sleep: no
\* connection attempt directly follows a connection end.
C7_BackoffAfterConnectionEnd ==
  \A t \in Threads : \A i \in 1..(Len(conn_log[t]) - 1) :
    conn_log[t][i].ev \in ConnectionEnds =>
      conn_log[t][i + 1] = Event("sleep", BackoffSeconds)

IsAttempt(e) == e.ev \in {"connect_failed", "connected"}

Attempts(t) == SelectSeq(conn_log[t], IsAttempt)

ThreeFailuresThenSuccess(t) ==
  /\ Len(Attempts(t)) >= 4
  /\ \A k \in 1..3 : Attempts(t)[k].ev = "connect_failed"
  /\ Attempts(t)[4].ev = "connected"

RetryLog ==
  << Event("connect_failed", 0), Event("sleep", BackoffSeconds),
     Event("connect_failed", 0), Event("sleep", BackoffSeconds),
     Event("connect_failed", 0), Event("sleep", BackoffSeconds),
     Event("connected", 0) >>

\* C8: when the first three connection attempts of a loop fail and the
\* fourth succeeds, the loop made exactly three retries, one 5-second sleep
\* before each, and with the fourth attempt it is receiving messages.
C8_ThreeRetriesThenStreams ==
  \A t \in Threads :
    ThreeFailuresThenSuccess(t) =>
      /\ Len(conn_log[t]) >= Len(RetryLog)
      /\ SubSeq(conn_log[t], 1, Len(RetryLog)) = RetryLog
      /\ conn_log[t] = RetryLog => pc[t] = "recv"

\* Three failures, three sleeps, a connection, and a trade handled to its
\* end with nobody stopping or restarting the service.
C8_Witness ==
  \E t \in Threads :
    /\ ThreeFailuresThenSuccess(t)
    /\ conn_log[t] = RetryLog
    /\ ~stop_requested
    /\ \E i \in 1..Len(trace) : trace[i].task = t /\ trace[i].step = "eval_alerts"

LastStep(tr) == tr[Len(tr)]

\* C9: a start loop ends only at its while test with the active flag
\* cleared by stop or restart_with_symbols, never on a failed attempt, a
\* closed connection or a message that raised; and a message that raised
\* leaves the loop receiving.
C9_ExitsOnlyWhenStopped ==
  [][\A t \in Threads :
       /\ (pc[t] # "done" /\ pc'[t] = "done") =>
            (pc[t] = "loop" /\ ~active /\ stop_requested)
       /\ ( /\ Len(trace') > Len(trace)
            /\ LastStep(trace').task = t
            /\ LastStep(trace').step = "error" ) => pc'[t] = "recv"]_vars

\* A connection attempt failed, a message raised, and the same task then
\* handled a trade; and a loop ended after the flag was cleared.
C9_Witness ==
  /\ \E i, j \in 1..Len(trace) :
       /\ i < j
       /\ trace[i].step = "error"
       /\ trace[j].step = "persist"
       /\ trace[i].task = trace[j].task
       /\ Occurrences(trace[i].task, {"connect_failed"}) > 0
  /\ \E t \in Threads : pc[t] = "done"

(***************************************************************************)
(* Properties of the alert rules.                                          *)
(***************************************************************************)
Conditions == {">", "<", ">=", "<=", "=="}

TickMetrics == {"price", "volume", "quantity"}

\* The comparison a rule's condition stands for.
Holds(value, condition, threshold) ==
  \/ condition = ">" /\ value > threshold
  \/ condition = "<" /\ value < threshold
  \/ condition = ">=" /\ value >= threshold
  \/ condition = "<=" /\ value <= threshold
  \/ condition = "==" /\ value - threshold < EqTolerance /\ threshold - value < EqTolerance

TickMetricValue(metric, tick) == IF metric = "price" THEN tick.price ELSE tick.quantity

\* The rule is one check_tick(tick) has to trigger.
TickHits(rule, tick) ==
  /\ rule.active
  /\ rule.symbol = tick.symbol
  /\ rule.metric \in TickMetrics
  /\ Holds(TickMetricValue(rule.metric, tick), rule.condition, rule.threshold)

TriggeredAlertOf(rule, value, timestamp) ==
  [alert_id |-> rule.id, message |-> rule.message, symbol |-> rule.symbol,
   metric |-> rule.metric, value |-> value, threshold |-> rule.threshold,
   timestamp |-> timestamp]

Triggered(i) ==
  /\ alerts'[i].trigger_count = alerts[i].trigger_count + 1
  /\ \E k \in 1..Len(call'.result) : call'.result[k].alert_id = alerts[i].id

\* C11: check_tick returns exactly one alert for each active rule of the
\* tick's symbol whose metric is price, volume or quantity and whose
\* comparison holds; that rule's trigger_count grows by one, its
\* last_triggered is stamped and the alert is appended to the history; every
\* other rule is left as it was.
C11_CheckTickTriggersMatchingRules ==
  [][\A tick \in Ticks :
       check_tick(tick) =>
         LET hits == { i \in 1..Len(alerts) : TickHits(alerts[i], tick) }
             result == call'.result
         IN /\ Len(alerts') = Len(alerts)
            /\ Len(result) = Cardinality(hits)
            /\ \A i \in hits :
                 /\ Cardinality({ k \in 1..Len(result) :
                                    result[k].alert_id = alerts[i].id }) = 1
                 /\ \E k \in 1..Len(result) :
                      result[k] = TriggeredAlertOf(alerts[i],
                                    TickMetricValue(alerts[i].metric, tick), tick.timestamp)
                 /\ alerts'[i] = [alerts[i] EXCEPT !.trigger_count = @ + 1,
                                                   !.last_triggered = now']
            /\ \A i \in (1..Len(alerts)) \ hits : alerts'[i] = alerts[i]
            /\ triggered_history' = LastN(triggered_history \o result, HistoryLimit)]_vars

\* A tick triggered one rule of its symbol and left another one alone.
C11_Witness ==
  /\ call.op = "check_tick"
  /\ Len(call.result) = 1
  /\ \E i, j \in 1..Len(alerts) :
       /\ alerts[i].id = call.result[1].alert_id
       /\ alerts[i].trigger_count = 1
       /\ alerts[i].last_triggered = now
       /\ alerts[j].symbol = call.args.symbol
       /\ alerts[j].trigger_count = 0
  /\ triggered_history # <<>>

\* The metric has a value in the snapshot.
Present(metric, analytics) ==
  \/ /\ metric \in {"zscore", "rsi", "volatility"}
     /\ "statistics" \in DOMAIN analytics
     /\ metric \in DOMAIN analytics.statistics
  \/ /\ metric = "price"
     /\ "price" \in DOMAIN analytics
     /\ "current" \in DOMAIN analytics.price

\* C12: check_analytics triggers a rule only when the rule's metric is in
\* the snapshot; a rule whose metric the snapshot lacks (a result without
\* statistics, a tick-only or unknown metric) is skipped: no alert for it,
\* its trigger_count and last_triggered as before, and with no rule left to
\* trigger the history is as before.
C12_AbsentMetricSkipsRule ==
  [][\A analytics \in Snapshots :
       check_analytics(analytics) =>
         /\ Len(alerts') = Len(alerts)
         /\ \A i \in 1..Len(alerts) :
              ~Present(alerts[i].metric, analytics) =>
                /\ alerts'[i] = alerts[i]
                /\ \A k \in 1..Len(call'.result) :
                     call'.result[k].alert_id # alerts[i].id
         /\ (\A i \in 1..Len(alerts) : ~Present(alerts[i].metric, analytics)) =>
              /\ call'.result = <<>>
              /\ triggered_history' = triggered_history]_vars

\* A snapshot with statistics triggered a z-score rule and skipped a rule on
\* another metric; then a result without statistics was checked and
\* triggered nothing.
C12_Witness ==
  /\ call.op = "check_analytics"
  /\ "statistics" \notin DOMAIN call.args
  /\ call.result = <<>>
  /\ \E i, j \in 1..Len(alerts) :
       /\ alerts[i].metric = "zscore"
       /\ alerts[i].trigger_count = 1
       /\ alerts[j].metric \notin {"zscore", "rsi", "volatility", "price"}
       /\ alerts[j].symbol = alerts[i].symbol
       /\ alerts[j].trigger_count = 0

\* The value a rule is compared on by a check of a tick or a snapshot, as a
\* set: empty when the check does not evaluate the rule.
ComparedValue(rule, c) ==
  IF c.op = "check_tick"
    THEN IF rule.symbol = c.args.symbol /\ rule.metric \in TickMetrics
           THEN {TickMetricValue(rule.metric, c.args)} ELSE {}
  ELSE IF /\ "symbol" \in DOMAIN c.args
          /\ rule.symbol = c.args.symbol
          /\ Present(rule.metric, c.args)
    THEN {IF rule.metric = "price" THEN c.args.price.current
          ELSE c.args.statistics[rule.metric]}
  ELSE {}

CheckStep ==
  \/ \E tick \in Ticks : check_tick(tick)
  \/ \E analytics \in Snapshots : check_analytics(analytics)

\* C13: an '==' rule triggers exactly when |value - threshold| < 0.0001 (two
\* units of 0.00005): threshold + 0.00005 triggers it, threshold + 0.001
\* does not; '>', '<', '>=' and '<=' compare exactly.
C13_EqualityWithinTolerance ==
  [][CheckStep =>
       \A i \in 1..Len(alerts) : \A v \in ComparedValue(alerts[i], call') :
         LET thr == alerts[i].threshold
         IN /\ alerts[i].condition = "==" =>
                 /\ Triggered(i) <=> (v - thr < EqTolerance /\ thr - v < EqTolerance)
                 /\ v = thr + 1 => Triggered(i)
                 /\ v = thr + 20 => ~Triggered(i)
            /\ alerts[i].condition = ">" => (Triggered(i) <=> v > thr)
            /\ alerts[i].condition = "<" => (Triggered(i) <=> v < thr)
            /\ alerts[i].condition = ">=" => (Triggered(i) <=> v >= thr)
            /\ alerts[i].condition = "<=" => (Triggered(i) <=> v <= thr)]_vars

\* A price of threshold + 0.00005 triggered an '==' rule, and then a price
\* of threshold + 0.001 did not.
C13_Witness ==
  /\ call.op = "check_tick"
  /\ call.result = <<>>
  /\ \E i \in 1..Len(alerts) :
       /\ alerts[i].condition = "=="
       /\ alerts[i].metric = "price"
       /\ alerts[i].symbol = call.args.symbol
       /\ call.args.price = alerts[i].threshold + 20
       /\ alerts[i].trigger_count = 1
       /\ \E k \in 1..Len(all_triggered) :
            /\ all_triggered[k].alert_id = alerts[i].id
            /\ all_triggered[k].value = alerts[i].threshold + 1

\* C14: a rule whose condition is none of '>', '<', '>=', '<=', '==' never
\* triggers on a tick or a snapshot: the rule stays as it was and no alert
\* of it is returned or enters the history.
C14_UnknownConditionNeverTriggers ==
  [][CheckStep =>
       \A i \in 1..Len(alerts) :
         alerts[i].condition \notin Conditions =>
           /\ alerts'[i] = alerts[i]
           /\ \A k \in 1..Len(call'.result) : call'.result[k].alert_id # alerts[i].id
           /\ \A k \in 1..Len(triggered_history') :
                triggered_history'[k].alert_id # alerts[i].id]_vars

\* A tick of the rule's symbol and metric was checked against a rule with
\* an unknown condition, and triggered another rule only.
C14_Witness ==
  /\ call.op = "check_tick"
  /\ call.result # <<>>
  /\ \E i \in 1..Len(alerts) :
       /\ alerts[i].condition \notin Conditions
       /\ alerts[i].symbol = call.args.symbol
       /\ alerts[i].metric = "price"
       /\ alerts[i].trigger_count = 0

\* C20: the alert map holds only rules whose request was well formed: a
\* known metric, a known condition, a symbol.
C20_MalformedRequestsRejected ==
  \A i \in 1..Len(alerts) :
    /\ alerts[i].metric \in {"price", "volume", "quantity", "zscore", "rsi", "volatility"}
    /\ alerts[i].condition \in Conditions
    /\ alerts[i].symbol # None


(***************************************************************************)
(* Properties of the backtest                                              *)
(***************************************************************************)
\* The latest row of the merged table, as a step of the loop sees it
NewRow == merged'[Len(merged')]
LoopStep == Len(merged') = Len(merged) + 1
Returned == call.op = "backtest_mean_reversion"

\* z = [2.5, 1.0, -0.5] with spreads [10, 8, 6]
ScenarioTable ==
  << [timestamp |-> 1, zscore |-> Real(25), spread |-> 10],
     [timestamp |-> 2, zscore |-> Real(10), spread |-> 8],
     [timestamp |-> 3, zscore |-> Real(-5), spread |-> 6] >>

ScenarioOutcome ==
  /\ (Len(merged) >= 1 /\ SubSeq(merged, 1, 1) = SubSeq(ScenarioTable, 1, 1)) =>
        /\ Len(merged) = 1 => in_position
        /\ positions[1].entry = 10 /\ positions[1].entry_time = 1
  /\ (Len(merged) = 2 /\ merged = SubSeq(ScenarioTable, 1, 2)) =>
        (in_position /\ Len(positions) = 1 /\ ~HasPnl(positions[1]))
  /\ merged = ScenarioTable =>
        /\ ~in_position
        /\ positions = <<[entry |-> 10, entry_time |-> 1, exit |-> 6, exit_time |-> 3,
                          pnl |-> 4]>>
        /\ Returned => (call.result.total_trades = 1 /\ call.result.trades = positions)

TradingRule ==
  LoopStep =>
    LET z == NewRow.zscore
        opens == ~in_position /\ ~z.nan /\ z.v > 20
        closes == in_position /\ ~z.nan /\ z.v < 0
    IN /\ opens =>
            /\ in_position'
            /\ positions' = Append(positions, [entry |-> NewRow.spread,
                                               entry_time |-> NewRow.timestamp])
       /\ closes =>
            /\ ~in_position'
            /\ Len(positions') = Len(positions)
            /\ \A i \in 1..(Len(positions) - 1) : positions'[i] = positions[i]
            /\ LET open == positions[Len(positions)]
                   done == positions'[Len(positions)]
               IN /\ done.entry = open.entry /\ done.entry_time = open.entry_time
                  /\ done.exit = NewRow.spread /\ done.exit_time = NewRow.timestamp
                  /\ done.pnl = open.entry - NewRow.spread
       /\ (~opens /\ ~closes) => UNCHANGED <<in_position, positions>>

\* C15: replaying the rows in timestamp order, the loop goes from flat to
\* in-position on a row with z-score > 2.0, recording the row's spread and time
\* as entry, and from in-position to flat on a row with z-score < 0.0, recording
\* exit spread and time and PnL = entry spread - exit spread, and does nothing on
\* any other row; for z = [2.5, 1.0, -0.5] with spreads [10, 8, 6] it opens at
\* the first row with entry 10, stays in position at the second, closes at the
\* third with exit 6 and yields exactly one completed trade with PnL 4.
C15_BacktestTradingRule == []ScenarioOutcome /\ [][TradingRule]_vars

C15_Witness ==
  /\ merged = ScenarioTable
  /\ Returned
  /\ call.result.total_trades = 1
  /\ call.result.total_pnl = 4

\* The completed trades, in entry order, counted without the filter of the code
ClosedAt == { i \in 1..Len(positions) : "pnl" \in DOMAIN positions[i] }
RECURSIVE SumOver(_)
SumOver(S) ==
  IF S = {} THEN 0
  ELSE LET i == CHOOSE j \in S : TRUE IN positions[i].pnl + SumOver(S \ {i})
WinsAt == { i \in ClosedAt : positions[i].pnl > 0 }

\* a/b as a fraction equals n/d
SameRatio(r, n, d) == r.den # 0 /\ r.num * d = n * r.den

\* C16: the aggregates are computed over completed trades only: total_trades is
\* their number, total_pnl the sum of their PnL, win_rate the fraction of them
\* with PnL > 0, avg_pnl_per_trade is total_pnl / total_trades, all three are 0
\* when no trade was completed, a position still open at the end counts in none
\* of them, and the returned list is the first min(10, total_trades) completed
\* trades in entry order.
C16_AggregatesOverCompletedTrades ==
  Returned =>
    LET r == call.result
        n == Cardinality(ClosedAt)
    IN /\ r.total_trades = n
       /\ r.total_pnl = SumOver(ClosedAt)
       /\ IF n = 0
            THEN SameRatio(r.win_rate, 0, 1) /\ SameRatio(r.avg_pnl_per_trade, 0, 1)
            ELSE /\ SameRatio(r.win_rate, Cardinality(WinsAt), n)
                 /\ SameRatio(r.avg_pnl_per_trade, SumOver(ClosedAt), n)
       /\ Len(r.trades) = (IF n < 10 THEN n ELSE 10)
       /\ \A j \in 1..Len(r.trades) :
            /\ r.trades[j] = positions[j]
            /\ j \in ClosedAt
       /\ \A i \in 1..Len(positions) : i \notin ClosedAt => i = Len(positions) /\ in_position

C16_Witness ==
  /\ Returned
  /\ in_position
  /\ Cardinality(ClosedAt) > 10
  /\ Len(call.result.trades) = 10
  /\ \E i \in ClosedAt : positions[i].pnl < 0
  /\ \E i \in ClosedAt : positions[i].pnl = 0

(***************************************************************************)
(* Properties of the analytics engine                                      *)
(***************************************************************************)
\* The rows the store holds for a symbol at a timeframe, and how many of them
\* a query limited to FrameLimit rows returns
StoredPoints(symbol, timeframe) ==
  IF timeframe = "tick"
    THEN Cardinality({ i \in 1..Len(ticks) : ticks[i].symbol = symbol })
    ELSE Cardinality({ i \in 1..Len(ohlc) :
                         ohlc[i].symbol = symbol /\ ohlc[i].timeframe = timeframe })

ReturnedPoints(symbol, timeframe) ==
  IF StoredPoints(symbol, timeframe) < FrameLimit
    THEN StoredPoints(symbol, timeframe) ELSE FrameLimit

IsInsufficient(r) == "error" \in DOMAIN r /\ r.error = "Insufficient data"

SingleCall == call' # call /\ call'.op = "compute_analytics"

\* C17: compute_analytics(symbol, timeframe, window), when the store returns
\* fewer than window data points (zero included), returns the insufficient-data
\* result with required = window and available = the number of points, and
\* neither a price/statistics block nor the mark of an exception; with at least
\* window points it does not return the insufficient-data result.
C17_InsufficientDataGuard ==
  [][SingleCall =>
       LET window == call'.args[3]
           n == ReturnedPoints(call'.args[1], call'.args[2])
           r == call'.result
       IN /\ n < window =>
               r = [error |-> "Insufficient data", required |-> window, available |-> n]
          /\ n >= window =>
               ~IsInsufficient(r) /\ "required" \notin DOMAIN r]_vars

C17_Witness ==
  /\ call.op = "compute_analytics"
  /\ IsInsufficient(call.result)
  /\ call.result.required = 2
  /\ call.result.available = 1

PairCall == call.op = "compute_pair_analytics"

\* C18: in compute_pair_analytics the joined table holds only timestamps that
\* both series have, its row count is at most min(len(series1), len(series2))
\* for ticks and for bars alike, and fewer than window joined rows give an
\* insufficient-data result.
C18_JoinWithinShorterSeries ==
  PairCall =>
    LET df1 == call.frames[1]
        df2 == call.frames[2]
    IN /\ Len(merged) <= Len(df1) /\ Len(merged) <= Len(df2)
       /\ \A k \in 1..Len(merged) :
            /\ \E i \in 1..Len(df1) : df1[i].timestamp = merged[k].timestamp
            /\ \E j \in 1..Len(df2) : df2[j].timestamp = merged[k].timestamp
       /\ Len(merged) < call.args[4] =>
            /\ "error" \in DOMAIN call.result
            /\ call.result.error \in { "Insufficient data for pair analytics",
                                       "Insufficient aligned data" }

RsiCall == call.op = "_calculate_rsi"

\* Rises and falls between neighbouring prices over the last RsiPeriod places
Window == { i \in 2..Len(prices) : i > Len(prices) - RsiPeriod }
RECURSIVE Moves(_, _)
Moves(S, sign) ==
  IF S = {} THEN 0
  ELSE LET i == CHOOSE j \in S : TRUE
           d == sign * (prices[i] - prices[i - 1])
       IN (IF d > 0 THEN d ELSE 0) + Moves(S \ {i}, sign)
Rises == Moves(Window, 1)
Falls == Moves(Window, -1)

InRange(r) == r.den > 0 /\ 0 <= r.num /\ r.num <= 100 * r.den
IsNeutral(r) == r.num = NeutralRsi * r.den

BarKeys(oh) ==
  { <<oh[k].symbol, oh[k].timeframe, oh[k].timestamp>> : k \in 1..Len(oh) }

\* C21: the tick log is append-only and the bar table never loses a key: over
\* every step of insert_tick, update_ohlc, the analytics and the alert checks,
\* each stored tick stays where it is with its timestamp, symbol, price and
\* quantity, so that the tick count never decreases, and each (symbol,
\* timeframe, bucket start) that had a bar still has one.
C21_TicksAndBarKeysPersist ==
  [][ /\ Len(ticks') >= Len(ticks)
      /\ \A i \in 1..Len(ticks) : ticks'[i] = ticks[i]
      /\ BarKeys(ohlc) \subseteq BarKeys(ohlc') ]_vars

\* Bars of two buckets are stored, one of them rewritten by a later tick, and
\* the engine has read the store since.
C21_Witness ==
  /\ call.op = "compute_analytics"
  /\ Len(ticks) = 3
  /\ \E k \in 1..Len(ohlc) : ohlc[k].timeframe = "1s" /\ ohlc[k].volume = 2
  /\ \E k \in 1..Len(ohlc) : ohlc[k].timeframe = "1s" /\ ToDatetime(ohlc[k].timestamp) = 1000

BarsAt(oh, timeframe) == { oh[k] : k \in { j \in 1..Len(oh) : oh[j].timeframe = timeframe } }

\* The bar of oh for symbol at timeframe whose bucket holds the instant
BarOfInstant(oh, symbol, timeframe, instant) ==
  { b \in BarsAt(oh, timeframe) :
      /\ b.symbol = symbol
      /\ ToDatetime(b.timestamp) <= instant
      /\ instant < ToDatetime(b.timestamp) + TimeframeSeconds(timeframe) * MsPerSec }

\* What an update of the bars of symbol at timestamp under fault leaves
IndependentUpserts(symbol, timestamp, fault) ==
  \A timeframe \in {"1s", "1m", "5m"} :
    IF timeframe \in fault.bars
      THEN BarsAt(ohlc', timeframe) = BarsAt(ohlc, timeframe)
      ELSE \/ /\ TicksOfBucket(ticks', symbol,
                               BucketStart(timeframe, timestamp),
                               TimeframeSeconds(timeframe) * MsPerSec) = {}
              /\ BarsAt(ohlc', timeframe) = BarsAt(ohlc, timeframe)
           \/ \E b \in BarOfInstant(ohlc', symbol, timeframe, timestamp) :
                BarAggregates(ticks', b)

\* C22: the bar update of each timeframe is an upsert of its own: when the
\* update of a timeframe fails, the bars of the other timeframes are still
\* brought up to date for the tick, the bars of the failed timeframe are left
\* as they were, and update_ohlc and insert_tick return without an error.
C22_IndependentBarUpserts ==
  [][ /\ call'.op = "insert_tick" =>
           /\ call'.result = "returned"
           /\ IF call'.fault.insert
                THEN ticks' = ticks /\ ohlc' = ohlc
                ELSE /\ ticks' = Append(ticks, TickRow(call'.args))
                     /\ IndependentUpserts(call'.args.symbol, call'.args.timestamp,
                                           call'.fault)
      /\ call'.op = "update_ohlc" =>
           /\ call'.result = "returned"
           /\ ticks' = ticks
           /\ IndependentUpserts(call'.args[1], call'.args[2], call'.fault) ]_vars

\* The 1m update failed for a tick: the 1s and 5m bars count it, the 1m bar
\* is the one stored before.
C22_Witness ==
  /\ call.op = "insert_tick"
  /\ call.fault.bars = {"1m"}
  /\ Len(ticks) = 2
  /\ \E b \in BarsAt(ohlc, "1s") : b.volume = 2
  /\ \E b \in BarsAt(ohlc, "5m") : b.volume = 2
  /\ \E b \in BarsAt(ohlc, "1m") : b.volume = 1
  /\ Cardinality(BarsAt(ohlc, "1m")) = 1

(***************************************************************************)
(* Properties of the message handler                                       *)
(***************************************************************************)
NewSteps == { i \in 1..Len(trace') : i > Len(trace) }

\* C23: an envelope without the 'data' key is ignored by process_message: no
\* tick is appended, no bar written, no alert evaluated or counted, no event
\* emitted, and the task goes on to receive the next message, which is handled
\* as any other.
C23_EnvelopeWithoutDataIgnored ==
  [][ (\E i \in NewSteps : trace'[i].step = "ignored") =>
        /\ UNCHANGED <<ticks, ohlc, alerts, triggered_history, all_triggered, now>>
        /\ Len(trace') = Len(trace) + 1
        /\ pc'[trace'[Len(trace')].task] = "recv" ]_vars

\* An envelope without 'data' was ignored and the same task then stored the
\* trade of the next message and emitted its tick event.
C23_Witness ==
  \E i \in 1..Len(trace) :
    /\ trace[i].step = "ignored"
    /\ i + 1 <= Len(trace)
    /\ trace[i + 1].step = "persist"
    /\ trace[i + 1].task = trace[i].task
    /\ trace[i + 1].msg = trace[i].msg + 1
    /\ \E j \in 1..Len(trace) : trace[j].step = "emit_tick" /\ trace[j].msg = trace[i].msg + 1
    /\ Len(ticks) = 1

Announces == {"emit_tick", "eval_alerts", "emit_alert"}

\* C27: every tick for which process_message emits a tick-update event or
\* evaluates alerts was appended to the tick log first: when persisting the
\* tick fails, no tick-update event goes out and no alert is triggered or
\* counted for it.
C27_PersistedBeforeAnnounced ==
  \A i \in 1..Len(trace) :
    trace[i].step \in Announces =>
      \E j \in 1..(i - 1) : trace[j].step = "persist" /\ SameMessage(trace[j], trace[i])

(***************************************************************************)
(* Properties of the rules' counters and of the history readers            *)
(***************************************************************************)
\* TriggeredAlerts ever produced for the rule alert_id
Produced(log, alert_id) ==
  Cardinality({ i \in 1..Len(log) : log[i].alert_id = alert_id })

CountOf(al, alert_id) ==
  LET rule == CHOOSE a \in Rows(al) : a.id = alert_id IN rule.trigger_count

RuleIds(al) == { al[i].id : i \in 1..Len(al) }

CountsMatchProduced ==
  \A i \in 1..Len(alerts) :
    alerts[i].trigger_count = Produced(all_triggered, alerts[i].id)

CountsStep ==
  /\ \A id \in RuleIds(alerts) \cap RuleIds(alerts') :
       /\ CountOf(alerts', id) >= CountOf(alerts, id)
       /\ call'.op \in {"remove_alert", "get_all_alerts", "get_triggered_history",
                        "clear_history"} => CountOf(alerts', id) = CountOf(alerts, id)
       /\ created' # created => CountOf(alerts', id) = CountOf(alerts, id)
  /\ \A id \in RuleIds(alerts') \ RuleIds(alerts) : CountOf(alerts', id) = 0

\* C24: the trigger_count of every rule starts at 0, never decreases, and is
\* at any time the number of TriggeredAlerts check_tick and check_analytics
\* have produced for the rule; add_alert and remove_alert of another rule,
\* get_all_alerts, get_triggered_history and clear_history leave it unchanged.
C24_TriggerCountCountsTriggers == []CountsMatchProduced /\ [][CountsStep]_vars

\* A rule has triggered twice, by a tick and by a snapshot; another rule was
\* removed and the history cleared since, and the rules were then read.
C24_Witness ==
  /\ call.op = "get_all_alerts"
  /\ triggered_history = <<>>
  /\ created = 2
  /\ Len(alerts) = 1
  /\ alerts[1].trigger_count = 2
  /\ \E i, j \in 1..Len(all_triggered) :
       all_triggered[i].metric = "price" /\ all_triggered[i].value # all_triggered[j].value

\* C29: get_triggered_history(limit) returns, for every limit >= 0, limit 0
\* included, at most limit entries: the latest min(limit, len(history))
\* triggered alerts in trigger order; and it leaves the history unchanged.
C29_HistoryReadReturnsLatest ==
  [][ (call' # call /\ call'.op = "get_triggered_history") =>
        LET limit == call'.args
            n == IF limit < Len(triggered_history) THEN limit ELSE Len(triggered_history)
        IN /\ Len(call'.result) <= limit
           /\ call'.result = LastN(triggered_history, n)
           /\ triggered_history' = triggered_history ]_vars

(***************************************************************************)
(* Bars and buckets under tick ingestion                                   *)
(***************************************************************************)
InBucket(bar, symbol, instant) ==
  /\ bar.symbol = symbol
  /\ ToDatetime(bar.timestamp) <= instant
  /\ instant < ToDatetime(bar.timestamp) + TimeframeSeconds(bar.timeframe) * MsPerSec

EveryTickHasItsBars ==
  \A i \in 1..Len(ticks) : \A timeframe \in {"1s", "1m", "5m"} :
    \E k \in 1..Len(ohlc) :
      /\ ohlc[k].timeframe = timeframe
      /\ InBucket(ohlc[k], ticks[i].symbol, ToDatetime(ticks[i].timestamp))

EveryBarHasATick ==
  \A k \in 1..Len(ohlc) :
    \E i \in 1..Len(ticks) :
      InBucket(ohlc[k], ticks[i].symbol, ToDatetime(ticks[i].timestamp))

\* The rows an insert_tick writes: one per timeframe, for the bucket of the tick
ThreeUpserts ==
  Len(ticks') = Len(ticks) + 1 =>
    LET tick == ticks'[Len(ticks')]
        n == Len(ohlc')
    IN /\ n <= Len(ohlc) + 3
       /\ n >= 3
       /\ \A d \in 0..2 :
            /\ ohlc'[n - d].timeframe = Timeframes[3 - d]
            /\ InBucket(ohlc'[n - d], tick.symbol, ToDatetime(tick.timestamp))
       /\ \A k \in 1..Len(ohlc) :
            (\A d \in 0..2 : ohlc[k].timeframe # Timeframes[3 - d]
                             \/ ~InBucket(ohlc[k], tick.symbol, ToDatetime(tick.timestamp)))
              => \E j \in 1..(n - 3) : ohlc'[j] = ohlc[k]

\* C25: after every insert_tick a bar exists for the bucket of the tick in each
\* of the three timeframes, written by one upsert per timeframe; and under tick
\* ingestion alone a bar exists for (symbol, timeframe, bucket start) if and
\* only if a stored tick of the symbol falls in the bucket, so that no bar of
\* an empty bucket is ever created.
C25_BarsExactlyForTickBuckets ==
  [](EveryTickHasItsBars /\ EveryBarHasATick) /\ [][ThreeUpserts]_vars

\* Three ticks of one symbol in three 1m buckets and two 5m buckets
C25_Witness ==
  /\ Len(ticks) = 3
  /\ Cardinality(BarsAt(ohlc, "1m")) = 3
  /\ Cardinality(BarsAt(ohlc, "5m")) = 2
  /\ Cardinality(BarsAt(ohlc, "1s")) = 3

(***************************************************************************)
(* The two states of the backtest                                          *)
(***************************************************************************)
OpenAt == { i \in 1..Len(positions) : "pnl" \notin DOMAIN positions[i] }

Alternation ==
  /\ Cardinality(OpenAt) <= 1
  /\ OpenAt \subseteq { Len(positions) }
  /\ in_position <=> OpenAt # {}
  /\ Len(positions) - Cardinality(ClosedAt) \in {0, 1}
  /\ \A i \in ClosedAt : positions[i].exit_time > positions[i].entry_time
  /\ \A i \in 1..(Len(positions) - 1) :
       positions[i].exit_time < positions[i + 1].entry_time

ClosedAtNext == { i \in 1..Len(positions') : "pnl" \in DOMAIN positions'[i] }

OneMovePerRow ==
  LoopStep =>
    /\ Len(positions') <= Len(positions) + 1
    /\ Cardinality(ClosedAtNext) <= Cardinality(ClosedAt) + 1
    /\ ~(Len(positions') > Len(positions) /\ Cardinality(ClosedAtNext) > Cardinality(ClosedAt))
    /\ NewRow.zscore.nan => UNCHANGED <<positions, in_position, entry_price>>

\* C26: in the backtest replay entries and exits alternate, starting with an
\* entry: at most one position is open at any row, the recorded positions
\* exceed the completed trades by 0 or 1, no row both opens and closes a
\* position, the exit row of every completed trade is later than its entry
\* row, and a row whose z-score is undefined neither opens nor closes.
C26_EntriesAndExitsAlternate == []Alternation /\ [][OneMovePerRow]_vars

\* A row with an undefined z-score passed while the first position was open;
\* trades were completed since and a position is open again.
C26_Witness ==
  /\ in_position
  /\ Cardinality(ClosedAt) >= 2
  /\ \E k \in 1..Len(merged) :
       /\ merged[k].zscore.nan
       /\ positions[1].entry_time < k
       /\ k < positions[1].exit_time

(***************************************************************************)
(* Rules changed while a tick is evaluated                                 *)
(***************************************************************************)
Finished == call.op = "check_alerts" /\ call.status \in {"returned", "raised"}

AlertIds(list) == { list[i].alert_id : i \in 1..Len(list) }

\* C28: when request threads add or remove rules while check_tick runs in the
\* ingestion task, the evaluation of the tick is not aborted: every rule that
\* is present and active throughout and matches the tick is evaluated, and the
\* trigger_count increment of a triggered rule is matched by an emitted
\* alert-triggered event.
C28_EvaluationSurvivesRuleChanges ==
  call.op = "check_alerts" =>
    /\ call.status # "raised"
    /\ Finished =>
         /\ AlertIds(call.triggered) = AlertIds(call.emitted)
         /\ \A i \in 1..Len(alerts) :
              (alerts[i].id \in call.present /\ TickHits(alerts[i], call.args))
                => alerts[i].id \in AlertIds(call.triggered)

(***************************************************************************)
(* After stop()                                                            *)
(***************************************************************************)
Stopped == stop_requested /\ ~active

\* A step of a stopped service: nothing is persisted, aggregated, alerted on
\* or emitted, and no task goes from the while test to a connection attempt.
StoppedStep ==
  Stopped =>
    /\ trace' = trace
    /\ ticks' = ticks
    /\ ohlc' = ohlc
    /\ triggered_history' = triggered_history
    /\ all_triggered' = all_triggered
    /\ \A t \in Threads : pc'[t] = "connect" => pc[t] = "connect"
    /\ \A t \in Threads : pc[t] = "recv" /\ msgs' = msgs + 1 =>
         /\ pc'[t] = "loop"
         /\ conn_log'[t] = Append(conn_log[t], Event("break", 0))

\* The current connection has ended or the task is in its backoff
BetweenConnections(t) == pc[t] \in {"loop", "backoff"}

\* C30: once stop() has cleared the active flag and nothing sets it again, no
\* later message is persisted, aggregated, alerted on or emitted, no new
\* connection attempt begins once the current connection has ended or the
\* current backoff has elapsed, and the start loop then terminates.
C30_NothingAfterStop ==
  /\ [][StoppedStep]_vars
  /\ \A t \in Threads : (Stopped /\ BetweenConnections(t)) ~> (pc[t] = "done")

\* stop() while the connection was open; the next message broke out of the
\* receive loop unprocessed and start() returned.
C30_Witness ==
  /\ Stopped
  /\ pc[1] = "done"
  /\ Occurrences(1, {"break"}) = 1
  /\ msgs >= 2
  /\ Len(trace) > 0

====
